---- MODULE Spec2Model ----
(***************************************************************************)
(* visual-tree-explorer: the dependency analysis                           *)
(* (src/src/dependency-graph.ts) and the tree explorer with its entry      *)
(* points (explorer, symbols, ast-symbols, cli-server, index).             *)
(*                                                                         *)
(* Strings are modelled by what the code does with them: a path is the     *)
(* sequence of its '/'-separated segments and a segment is the sequence of *)
(* its '.'-separated parts, so "lib/a.js" is << <<"lib">>, <<"a","js">> >>, *)
(* "." is <<"","">> and ".." is <<"","","">>.  An optional value is the    *)
(* empty tuple (undefined) or a one-element tuple.                         *)
(***************************************************************************)
EXTENDS Integers, Sequences, FiniteSets, TLC

VARIABLES fs, callsLeft, heap, analyzers, call, returned, reads,
          links, denied, cwd, request, explore, formatted, suspended

\* what the tree explorer adds to the state of the dependency analysis
explorerVars == <<links, denied, cwd, request, explore>>

\* what the callers of the analysis add: the formatter and overlapping calls
callerVars == <<formatted, suspended>>

vars == <<fs, callsLeft, heap, analyzers, call, returned, reads, explorerVars, callerVars>>

\* ------------------------------------------------------------------ bounds
MaxCalls == 2

MaxStatements == 3

\* ------------------------------------------------------- generic helpers
undefined == <<>>

Some(v) == <<v>>

Range(s) == {s[i] : i \in 1..Len(s)}

Max(a, b) == IF a > b THEN a ELSE b

Prefix(s, n) == SubSeq(s, 1, n)

Suffix(s, n) == SubSeq(s, n + 1, Len(s))

IsPrefix(p, s) == Len(p) <= Len(s) /\ Prefix(s, Len(p)) = p

RECURSIVE Perms(_)
Perms(S) ==
  IF S = {} THEN {<<>>}
  ELSE UNION {{<<x>> \o t : t \in Perms(S \ {x})} : x \in S}

RECURSIVE Flatten(_)
Flatten(ss) == IF ss = <<>> THEN <<>> ELSE Head(ss) \o Flatten(Tail(ss))

RECURSIVE Gcd(_, _)
Gcd(a, b) == IF b = 0 THEN a ELSE Gcd(b, a % b)

\* ------------------------------------------------------------ path module
Dot == <<"", "">>

DotDot == <<"", "", "">>

\* path.extname of a file name: the part after the last '.', unless that
\* dot is the first character of the name
extname(seg) ==
  IF Len(seg) >= 2 /\ ~(\A i \in 1..(Len(seg) - 1) : seg[i] = "")
  THEN Some(seg[Len(seg)])
  ELSE undefined

\* String.prototype.startsWith('.') on a path or a file name
startsWithDot(p) == p # <<>> /\ Len(p[1]) >= 2 /\ p[1][1] = ""

\* String.prototype.startsWith('/') on a path
startsWithSlash(p) == Len(p) >= 2 /\ p[1] = <<"">>

\* path.resolve(fromDir, importPath) for an absolute fromDir
RECURSIVE resolve(_, _)
resolve(dir, p) ==
  IF p = <<>> THEN dir
  ELSE IF Head(p) = <<"">> THEN resolve(<<>>, Tail(p))
  ELSE IF Head(p) = Dot THEN resolve(dir, Tail(p))
  ELSE IF Head(p) = DotDot
       THEN resolve(IF dir = <<>> THEN <<>> ELSE Prefix(dir, Len(dir) - 1), Tail(p))
  ELSE resolve(Append(dir, Head(p)), Tail(p))

RECURSIVE CommonLen(_, _)
CommonLen(a, b) ==
  IF a = <<>> \/ b = <<>> \/ Head(a) # Head(b) THEN 0
  ELSE 1 + CommonLen(Tail(a), Tail(b))

\* path.relative(from, to) for two absolute paths
relative(from, to) ==
  LET c == CommonLen(from, to)
  IN  [i \in 1..(Len(from) - c) |-> DotDot] \o Suffix(to, c)

\* path.dirname of an absolute path
dirname(p) == IF p = <<>> THEN <<>> ELSE Prefix(p, Len(p) - 1)

\* path.basename
basename(p) == IF p = <<>> THEN <<"">> ELSE p[Len(p)]

\* the string s + '.' + e, as in resolved + ext
withExtension(p, e) ==
  IF p = <<>> THEN << <<"", e>> >>
  ELSE Append(Prefix(p, Len(p) - 1), Append(p[Len(p)], e))

\* a JavaScript string used as a condition: '' and undefined are falsy
Truthy(opt) == opt # undefined /\ opt[1] # <<>>

\* ------------------------------------------------------------ file system
\* fs maps the absolute path of every existing file to its content; a
\* directory exists when some file lies below it
isFile(p) == p \in DOMAIN fs

isDirectory(p) == \E f \in DOMAIN fs : IsPrefix(p, f) /\ Len(f) > Len(p)

\* fs.readdir: the names of the entries of a directory
entries(dir) == {f[Len(dir) + 1] : f \in {g \in DOMAIN fs : IsPrefix(dir, g) /\ Len(g) > Len(dir)}}

\* ---------------------------------------------------- DependencyAnalyzer
fileExtensions == <<"ts", "tsx", "js", "jsx", "mjs", "cjs">>

isExternalDependency(importPath) ==
  ~startsWithDot(importPath) /\ ~startsWithSlash(importPath)

RECURSIVE tryExtensions(_, _, _)
tryExtensions(rootPath, resolved, exts) ==
  IF exts = <<>> THEN undefined
  ELSE LET withExt   == withExtension(resolved, Head(exts))
           indexPath == Append(resolved, <<"index", Head(exts)>>)
       IN  IF isFile(withExt) THEN Some(relative(rootPath, withExt))
           ELSE IF isFile(indexPath) THEN Some(relative(rootPath, indexPath))
           ELSE tryExtensions(rootPath, resolved, Tail(exts))

resolveImportPathAnySpecifier(rootPath, importPath, fromFile) ==
  IF startsWithDot(importPath) \/ isExternalDependency(importPath)
  THEN tryExtensions(rootPath, resolve(dirname(fromFile), importPath), fileExtensions)
  ELSE undefined

resolveImportPath(rootPath, importPath, fromFile) ==
  IF isExternalDependency(importPath) THEN undefined
  ELSE IF startsWithDot(importPath)
       THEN tryExtensions(rootPath, resolve(dirname(fromFile), importPath), fileExtensions)
       ELSE undefined

\* A file's content is its sequence of top-level statements, of three
\* forms: `import x from '<spec>'`, `export function <name>() {}` and
\* `require()`, a call without argument.  Both extractors recognise the
\* first form and the second; on the third the AST visitor throws (line 176
\* reads the kind of a missing argument) and the regex finds nothing.
importsOf(content) == SelectSeq(content.stmts, LAMBDA st : st.kind = "import")

exportsOf(content) == SelectSeq(content.stmts, LAMBDA st : st.kind = "export")

\* the statements the import visitor sees before it throws, if it does
beforeThrow(stmts) ==
  IF \E i \in 1..Len(stmts) : stmts[i].kind = "call"
  THEN Prefix(stmts, (CHOOSE i \in 1..Len(stmts) :
                        stmts[i].kind = "call"
                        /\ \A j \in 1..(i - 1) : stmts[j].kind # "call") - 1)
  ELSE stmts

DependencyInfo(rootPath, importPath, filePath) ==
  [path         |-> importPath,
   resolvedPath |-> resolveImportPath(rootPath, importPath, filePath),
   type         |-> "import",
   isExternal   |-> isExternalDependency(importPath)]

\* the dependencies pushed before the visitor returns or throws
visitImportNodes(rootPath, content, filePath) ==
  LET imps == SelectSeq(beforeThrow(content.stmts), LAMBDA st : st.kind = "import")
  IN  [i \in 1..Len(imps) |-> DependencyInfo(rootPath, imps[i].spec, filePath)]

extractDependenciesWithRegex(rootPath, content, filePath) ==
  LET imps == importsOf(content)
  IN  [i \in 1..Len(imps) |-> DependencyInfo(rootPath, imps[i].spec, filePath)]

usesAST(filePath) == extname(basename(filePath)) \in {Some("ts"), Some("tsx")}

\* the catch swallows what ts.createSourceFile (on a malformed file) or the
\* visitor throws, and the regex pass runs in every case
extractDependencies(rootPath, content, filePath) ==
  (IF usesAST(filePath) /\ ~content.malformed
   THEN visitImportNodes(rootPath, content, filePath)
   ELSE <<>>)
  \o extractDependenciesWithRegex(rootPath, content, filePath)

visitExportNodes(content) ==
  LET exps == exportsOf(content) IN [i \in 1..Len(exps) |-> exps[i].name]

extractExportsWithRegex(content) ==
  LET exps == exportsOf(content) IN [i \in 1..Len(exps) |-> exps[i].name]

extractExports(content, filePath) ==
  IF usesAST(filePath) /\ ~content.malformed
  THEN visitExportNodes(content)
  ELSE extractExportsWithRegex(content)

\* Map.prototype.set on the insertion-ordered node map
mapSet(nodes, node) ==
  IF \E i \in 1..Len(nodes) : nodes[i].path = node.path
  THEN [i \in 1..Len(nodes) |-> IF nodes[i].path = node.path THEN node ELSE nodes[i]]
  ELSE Append(nodes, node)

mapHas(nodes, key) == \E i \in 1..Len(nodes) : nodes[i].path = key

mapGet(nodes, key) == nodes[CHOOSE i \in 1..Len(nodes) : nodes[i].path = key]

Node(rootPath, filePath) ==
  [path       |-> relative(rootPath, filePath),
   name       |-> basename(filePath),
   exports    |-> extractExports(fs[filePath], filePath),
   imports    |-> extractDependencies(rootPath, fs[filePath], filePath),
   dependents |-> <<>>,
   cluster    |-> undefined]

parseFileUnguarded(g, rootPath, filePath) ==
  IF ~fs[filePath].readable \/ (usesAST(filePath) /\ fs[filePath].malformed) THEN g
  ELSE [g EXCEPT !.nodes = mapSet(@, Node(rootPath, filePath))]

\* parseFile: a file that cannot be read is skipped, any other becomes a node
parseFile(g, rootPath, filePath) ==
  IF ~fs[filePath].readable THEN g
  ELSE [g EXCEPT !.nodes = mapSet(@, Node(rootPath, filePath))]

\* the product of a sequence of sets of sequences, concatenated
RECURSIVE ConcatAll(_)
ConcatAll(sets) ==
  IF sets = <<>> THEN {<<>>}
  ELSE {h \o t : h \in Head(sets), t \in ConcatAll(Tail(sets))}

skippedDirectory(name) == startsWithDot(<<name>>) \/ name = <<"node_modules">>

\* traverse: every file list the traversal can produce; fs.readdir returns
\* the entries of a directory in an order the file system chooses
RECURSIVE traverse(_)
traverse(dirPath) ==
  UNION { ConcatAll([i \in 1..Len(order) |->
            LET fullPath == Append(dirPath, order[i])
            IN  IF isDirectory(fullPath) /\ ~skippedDirectory(order[i])
                THEN traverse(fullPath)
                ELSE IF isFile(fullPath) /\ extname(order[i]) # undefined
                        /\ extname(order[i])[1] \in Range(fileExtensions)
                     THEN {<<fullPath>>}
                     ELSE {<<>>}])
          : order \in Perms(entries(dirPath)) }

collectFilesWithoutStat(targetPath) ==
  IF isFile(targetPath) THEN {<<targetPath>>}
  ELSE IF isDirectory(targetPath) THEN traverse(targetPath)
  ELSE {<<>>}

\* collectFiles: fs.stat rejects for a missing path (no file list at all)
collectFiles(targetPath) ==
  IF isFile(targetPath) THEN {<<targetPath>>}
  ELSE IF isDirectory(targetPath) THEN traverse(targetPath)
  ELSE {}

\* ---------------------------------------------------------- graph passes
createsEdgeUnchecked(nodes, dep) == Truthy(dep.resolvedPath)

\* line 418: an import becomes an edge when it resolved to a key of the map
createsEdge(nodes, dep) ==
  Truthy(dep.resolvedPath) /\ mapHas(nodes, dep.resolvedPath[1])

\* every (importing file, import) pair in the iteration order of the map
importPairs(nodes) ==
  Flatten([i \in 1..Len(nodes) |->
            [j \in 1..Len(nodes[i].imports) |->
              [from |-> nodes[i].path, dep |-> nodes[i].imports[j]]]])

buildDependencyGraphDistinct(g) ==
  LET sel   == SelectSeq(importPairs(g.nodes), LAMBDA p : createsEdge(g.nodes, p.dep))
      added == [k \in 1..Len(sel) |->
                 [from   |-> sel[k].from,
                  to     |-> sel[k].dep.resolvedPath[1],
                  type   |-> sel[k].dep.type,
                  weight |-> 1]]
      first(k) == \A j \in 1..(k - 1) :
                    added[j].from # added[k].from \/ added[j].to # added[k].to
      into(key) == SelectSeq([k \in 1..Len(added) |-> [e |-> added[k], k |-> k]],
                             LAMBDA x : x.e.to = key /\ first(x.k))
  IN  [g EXCEPT
        !.edges = @ \o added,
        !.nodes = [i \in 1..Len(@) |->
                    [@[i] EXCEPT !.dependents =
                       @ \o [k \in 1..Len(into(g.nodes[i].path)) |->
                              into(g.nodes[i].path)[k].e.from]]]]

\* lines 414-438: one edge and one entry of the target's dependents for
\* every import that resolved to a key of the map
buildDependencyGraph(g) ==
  LET sel   == SelectSeq(importPairs(g.nodes), LAMBDA p : createsEdge(g.nodes, p.dep))
      added == [k \in 1..Len(sel) |->
                 [from   |-> sel[k].from,
                  to     |-> sel[k].dep.resolvedPath[1],
                  type   |-> sel[k].dep.type,
                  weight |-> 1]]
      into(key) == SelectSeq(added, LAMBDA e : e.to = key)
  IN  [g EXCEPT
        !.edges = @ \o added,
        !.nodes = [i \in 1..Len(@) |->
                    [@[i] EXCEPT !.dependents =
                       @ \o [k \in 1..Len(into(g.nodes[i].path)) |->
                              into(g.nodes[i].path)[k].from]]]]

\* Array.prototype.indexOf for an element that occurs
indexOf(s, x) == CHOOSE i \in 1..Len(s) : s[i] = x /\ \A j \in 1..(i - 1) : s[j] # x

CircularDependencyWholePath(path, target) ==
  LET cycle == path \o <<target>>
  IN  [cycle  |-> cycle,
       length |-> Len(cycle) - 1,
       type   |-> IF Len(cycle) = 2 THEN "direct" ELSE "indirect"]

\* lines 469-476: the cycle record pushed when the target is on the stack
CircularDependency(path, target) ==
  LET cycle == SubSeq(path, indexOf(path, target), Len(path)) \o <<target>>
  IN  [cycle  |-> cycle,
       length |-> Len(cycle) - 1,
       type   |-> IF Len(cycle) = 2 THEN "direct" ELSE "indirect"]

RECURSIVE dfsForCycles(_, _, _)
RECURSIVE dfsImports(_, _, _)
dfsImports(nodes, imports, st) ==
  IF imports = <<>> THEN st
  ELSE LET dep == Head(imports)
           st1 == IF Truthy(dep.resolvedPath) /\ mapHas(nodes, dep.resolvedPath[1])
                  THEN LET target == dep.resolvedPath[1]
                       IN  IF target \in st.recursionStack
                           THEN [st EXCEPT !.cycles =
                                   Append(@, CircularDependency(st.path, target))]
                           ELSE IF target \notin st.visited
                                THEN dfsForCycles(nodes, target, st)
                                ELSE st
                  ELSE st
       IN  dfsImports(nodes, Tail(imports), st1)

\* what an observer of the search records and the code does not: whether
\* the recursion stack has held the files of the path after every change
observed(st) == [st EXCEPT !.inStep = @ /\ st.recursionStack = Range(st.path)]

dfsForCyclesKeepPath(nodes, current, st) ==
  LET st1 == [st EXCEPT !.visited = @ \cup {current},
                        !.recursionStack = @ \cup {current},
                        !.path = Append(@, current),
                        !.entered = Append(@, current)]
      st2 == IF mapHas(nodes, current)
             THEN dfsImports(nodes, mapGet(nodes, current).imports, observed(st1))
             ELSE observed(st1)
  IN  observed([st2 EXCEPT !.recursionStack = @ \ {current}])

\* lines 451-486; entered lists the calls of dfsForCycles in their order
dfsForCycles(nodes, current, st) ==
  LET st1 == [st EXCEPT !.visited = @ \cup {current},
                        !.recursionStack = @ \cup {current},
                        !.path = Append(@, current),
                        !.entered = Append(@, current)]
      st2 == IF mapHas(nodes, current)
             THEN dfsImports(nodes, mapGet(nodes, current).imports, observed(st1))
             ELSE observed(st1)
  IN  observed([st2 EXCEPT !.recursionStack = @ \ {current},
                           !.path = Prefix(@, Len(@) - 1)])

RECURSIVE detectFromFirstOnly(_, _, _)
detectFromFirstOnly(nodes, i, st) ==
  IF i > Len(nodes) \/ i > 1 THEN st
  ELSE detectFromFirstOnly(nodes, i + 1,
         IF nodes[i].path \notin st.visited
         THEN dfsForCycles(nodes, nodes[i].path, st)
         ELSE st)

\* lines 444-448: a search from every node not visited before
RECURSIVE detectFrom(_, _, _)
detectFrom(nodes, i, st) ==
  IF i > Len(nodes) THEN st
  ELSE detectFrom(nodes, i + 1,
         IF nodes[i].path \notin st.visited
         THEN dfsForCycles(nodes, nodes[i].path, st)
         ELSE st)

\* lines 441-442: the empty sets a detection starts with
newSearch ==
  [visited |-> {}, recursionStack |-> {}, path |-> <<>>, cycles |-> <<>>,
   entered |-> <<>>, inStep |-> TRUE]

detectCircularDependencies(g) ==
  LET st == detectFrom(g.nodes, 1, newSearch)
  IN  [g EXCEPT !.circularDependencies = @ \o st.cycles]

\* JavaScript number division, kept exact: a reduced fraction, with 0/0
\* (NaN) and n/0 (Infinity) told apart from every finite value by den = 0
divide(a, b) ==
  IF b = 0 THEN [num |-> IF a = 0 THEN 0 ELSE 1, den |-> 0]
  ELSE [num |-> a \div Gcd(a, b), den |-> b \div Gcd(a, b)]

Zero == divide(0, 1)

\* lines 493-494: the grouping key of a root-relative path
dirName(filePath) ==
  IF Len(filePath) <= 1 THEN <<"root">> ELSE filePath[1]

cohesionOfUnguarded(internal, external) == divide(internal, internal + external)

\* line 540
cohesionOf(internal, external) ==
  IF internal + external > 0 THEN divide(internal, internal + external) ELSE Zero

calculateClusters(g) ==
  LET keys    == [i \in 1..Len(g.nodes) |-> dirName(g.nodes[i].path)]
      firsts  == SelectSeq([i \in 1..Len(keys) |-> [i |-> i, k |-> keys[i]]],
                           LAMBDA r : \A j \in 1..(r.i - 1) : keys[j] # r.k)
      tagged  == [i \in 1..Len(g.nodes) |->
                   [g.nodes[i] EXCEPT !.cluster = Some(keys[i])]]
      members(id) == SelectSeq(tagged, LAMBDA n : n.cluster = Some(id))
      deps(id)    == Flatten([i \in 1..Len(members(id)) |->
                       SelectSeq(members(id)[i].imports,
                                 LAMBDA d : Truthy(d.resolvedPath))])
      isInternal(id, d) == mapHas(tagged, d.resolvedPath[1])
                           /\ mapGet(tagged, d.resolvedPath[1]).cluster = Some(id)
      internal(id) == Len(SelectSeq(deps(id), LAMBDA d : isInternal(id, d)))
      external(id) == Len(SelectSeq(deps(id), LAMBDA d : ~isInternal(id, d)))
  IN  [g EXCEPT
        !.nodes = tagged,
        !.clusters = [c \in 1..Len(firsts) |->
           LET id == firsts[c].k
           IN  [id    |-> id,
                name  |-> id,
                files |-> [i \in 1..Len(members(id)) |-> members(id)[i].path],
                internalDependencies |-> internal(id),
                externalDependencies |-> external(id),
                cohesion |-> cohesionOf(internal(id), external(id))]]]

RECURSIVE calculateDepth(_, _, _)
RECURSIVE maxChildDepth(_, _, _)
maxChildDepth(nodes, imports, visited) ==
  IF imports = <<>> THEN 0
  ELSE LET dep == Head(imports)
           childDepth == IF Truthy(dep.resolvedPath) /\ mapHas(nodes, dep.resolvedPath[1])
                         THEN calculateDepth(nodes, dep.resolvedPath[1], visited)
                         ELSE 0
       IN  Max(childDepth, maxChildDepth(nodes, Tail(imports), visited))

calculateDepth(nodes, filePath, visited) ==
  IF filePath \in visited THEN 0
  ELSE IF ~mapHas(nodes, filePath) THEN 0
  ELSE 1 + maxChildDepth(nodes, mapGet(nodes, filePath).imports, visited \cup {filePath})

RECURSIVE maxDepthFrom(_, _)
maxDepthFrom(nodes, i) ==
  IF i > Len(nodes) THEN 0
  ELSE Max(calculateDepth(nodes, nodes[i].path, {}), maxDepthFrom(nodes, i + 1))

calculateMaxDepthFromFirst(g) ==
  IF g.nodes = <<>> THEN 0 ELSE calculateDepth(g.nodes, g.nodes[1].path, {})

\* lines 583-611: the deepest chain that starts at any node
calculateMaxDepth(g) == maxDepthFrom(g.nodes, 1)

connections(node) == Len(node.imports) + Len(node.dependents)

\* lines 554-569: strict '>' keeps the first file that reaches the maximum
RECURSIVE mostConnected(_, _, _, _)
mostConnected(nodes, i, maxConnections, best) ==
  IF i > Len(nodes) THEN best
  ELSE IF connections(nodes[i]) > maxConnections
       THEN mostConnected(nodes, i + 1, connections(nodes[i]), nodes[i].path)
       ELSE mostConnected(nodes, i + 1, maxConnections, best)

calculateStats(g) ==
  LET totalFiles == Len(g.nodes)
      totalDeps  == Len(g.edges)
      fromHasExternal(e) ==
        mapHas(g.nodes, e.from)
        /\ \E k \in 1..Len(mapGet(g.nodes, e.from).imports) :
             mapGet(g.nodes, e.from).imports[k].isExternal
  IN  [g EXCEPT !.stats =
        [totalFiles             |-> totalFiles,
         totalDependencies      |-> totalDeps,
         externalDependencies   |-> Len(SelectSeq(g.edges, fromHasExternal)),
         circularDependencies   |-> Len(g.circularDependencies),
         maxDepth               |-> calculateMaxDepth(g),
         avgDependenciesPerFile |-> IF totalFiles > 0 THEN divide(totalDeps, totalFiles) ELSE Zero,
         mostConnectedFile      |-> mostConnected(g.nodes, 1, 0, <<>>),
         leastConnectedFiles    |-> LET least == SelectSeq(g.nodes, LAMBDA n : connections(n) = 0)
                                    IN  [i \in 1..Len(least) |-> least[i].path]]]

\* lines 22-37: the graph object a new DependencyAnalyzer holds
emptyGraph ==
  [nodes |-> <<>>, edges |-> <<>>, clusters |-> <<>>, circularDependencies |-> <<>>,
   stats |-> [totalFiles |-> 0, totalDependencies |-> 0, externalDependencies |-> 0,
              circularDependencies |-> 0, maxDepth |-> 0, avgDependenciesPerFile |-> Zero,
              mostConnectedFile |-> <<>>, leastConnectedFiles |-> <<>>]]

\* lines 41-45: the reset at the start of every analysis (stats are kept)
resetGraph(g) ==
  [g EXCEPT !.nodes = <<>>, !.edges = <<>>, !.clusters = <<>>,
            !.circularDependencies = <<>>]

\* ------------------------------------------------------ JavaScript numbers
\* a number is a reduced fraction; NaN is 0/0
NaN == divide(0, 0)

Number(n) == divide(n, 1)

isNaN(x) == x.den = 0

\* a < b: false when either side is NaN
lessThan(a, b) == ~isNaN(a) /\ ~isNaN(b) /\ a.num * b.den < b.num * a.den

\* a >= b: false when either side is NaN
atLeast(a, b) == ~isNaN(a) /\ ~isNaN(b) /\ a.num * b.den >= b.num * a.den

MathMax(a, b) == IF isNaN(a) \/ isNaN(b) THEN NaN ELSE IF lessThan(a, b) THEN b ELSE a

MathMin(a, b) == IF isNaN(a) \/ isNaN(b) THEN NaN ELSE IF lessThan(b, a) THEN b ELSE a

\* a string is the sequence of its characters
digits == <<"0", "1", "2", "3", "4", "5", "6", "7", "8", "9">>

isDigit(c) == c \in Range(digits)

digitValue(c) == (CHOOSE i \in 1..Len(digits) : digits[i] = c) - 1

\* the value of the longest prefix of digits of text, read after acc
RECURSIVE leadingDigits(_, _)
leadingDigits(text, acc) ==
  IF text = <<>> \/ ~isDigit(Head(text)) THEN acc
  ELSE leadingDigits(Tail(text), acc * 10 + digitValue(Head(text)))

RECURSIVE trimStart(_)
trimStart(text) ==
  IF text # <<>> /\ Head(text) = " " THEN trimStart(Tail(text)) ELSE text

\* parseInt(text) without radix, on text that holds no 'x': white space is
\* skipped, a sign is read, then the digits up to the first other
\* character; no digit there gives NaN
parseInt(text) ==
  LET t      == trimStart(text)
      signed == t # <<>> /\ Head(t) \in {"-", "+"}
      body   == IF signed THEN Tail(t) ELSE t
  IN  IF body = <<>> \/ ~isDigit(Head(body)) THEN NaN
      ELSE IF signed /\ Head(t) = "-" THEN Number(0 - leadingDigits(body, 0))
      ELSE Number(leadingDigits(body, 0))

\* ----------------------------------------------------- dependency-formatter
\* one step of the sort: c goes behind the clusters that are not below it
insertCluster(sorted, c) ==
  LET k == Cardinality({i \in 1..Len(sorted) : ~lessThan(sorted[i].cohesion, c.cohesion)})
  IN  Prefix(sorted, k) \o <<c>> \o Suffix(sorted, k)

\* clusters.sort((a, b) => b.cohesion - a.cohesion): highest cohesion
\* first, clusters of equal cohesion in the order they had
RECURSIVE sortByCohesion(_)
sortByCohesion(clusters) ==
  IF clusters = <<>> THEN <<>>
  ELSE insertCluster(sortByCohesion(Prefix(clusters, Len(clusters) - 1)),
                     clusters[Len(clusters)])

\* the lines of a cluster list: name, number of files and cohesion
clusterLines(clusters) ==
  [i \in 1..Len(clusters) |->
     [name |-> clusters[i].name, files |-> Len(clusters[i].files),
      cohesion |-> clusters[i].cohesion]]

\* formatClusters sorts the array it is given, in place
formatClusters(clusters) == sortByCohesion(clusters)

\* formatDependencyGraph: the text, and the graph object as the call leaves
\* it (the statistics, the cycles, the clusters when there are several)
formatDependencyGraph(graph) ==
  LET several == Len(graph.clusters) > 1
      after   == IF several
                 THEN [graph EXCEPT !.clusters = formatClusters(@)]
                 ELSE graph
  IN  [graph |-> after,
       text  |-> [stats    |-> graph.stats,
                  cycles   |-> graph.circularDependencies,
                  clusters |-> IF several THEN clusterLines(after.clusters) ELSE <<>>]]

\* formatCompactDependencyGraph: the totals, at most three cycles, the most
\* connected file and at most three clusters, in the order of the graph
formatCompactDependencyGraph(graph) ==
  [graph |-> graph,
   text  |-> [stats    |-> <<graph.stats.totalFiles, graph.stats.totalDependencies,
                             graph.stats.mostConnectedFile>>,
              cycles   |-> Prefix(graph.circularDependencies,
                                  IF Len(graph.circularDependencies) < 3
                                  THEN Len(graph.circularDependencies) ELSE 3),
              clusters |-> IF Len(graph.clusters) > 1
                           THEN clusterLines(Prefix(graph.clusters,
                                  IF Len(graph.clusters) < 3 THEN Len(graph.clusters) ELSE 3))
                           ELSE <<>>]]

\* formatDependencyGraphJson: every field of the graph, as it is
formatDependencyGraphJson(graph) ==
  [graph |-> graph,
   text  |-> [nodes |-> graph.nodes, edges |-> graph.edges, clusters |-> graph.clusters,
              circularDependencies |-> graph.circularDependencies,
              stats |-> graph.stats]]

\* ------------------------------------------------------------ entry points
ParamNames == {"depth", "preview_lines", "max_symbols", "max_files"}

\* cli-server.ts parseArgs: an option followed by a non-empty argument sets
\* the parameter to parseInt of the argument
parseArgs(text) ==
  [n \in ParamNames |-> IF Truthy(text[n]) THEN Some(parseInt(text[n][1])) ELSE undefined]

\* cli-server.ts runServer: a non-empty query value is parsed, a missing or
\* empty one gives the default written in the handler
runServer(text) ==
  [n \in ParamNames |->
     IF Truthy(text[n]) THEN Some(parseInt(text[n][1]))
     ELSE CASE n = "depth"         -> Some(Number(2))
            [] n = "preview_lines" -> Some(Number(5))
            [] n = "max_symbols"   -> undefined
            [] n = "max_files"     -> Some(Number(100))]

\* ----------------------------------------------------------- exploreTree
\* types.ts VALIDATION_LIMITS
maxDepth == 10

maxPreviewLines == 50

maxSymbolsPerFile == 50

maxFilesPerDirectory == 500

defaultDepth == 2

defaultPreviewLines == 5

defaultMaxSymbols == 20

defaultMaxFiles == 100

\* Math.min(Math.max(lowest, given ?? default), highest)
limit(lowest, given, default, highest) ==
  MathMin(MathMax(Number(lowest), IF given = undefined THEN Number(default) ELSE given[1]),
          Number(highest))

\* the limits exploreTree applies to the four numeric parameters
validatedLimits(params) ==
  [depth         |-> limit(1, params["depth"], defaultDepth, maxDepth),
   preview_lines |-> limit(0, params["preview_lines"], defaultPreviewLines, maxPreviewLines),
   max_symbols   |-> limit(1, params["max_symbols"], defaultMaxSymbols, maxSymbolsPerFile),
   max_files     |-> limit(1, params["max_files"], defaultMaxFiles, maxFilesPerDirectory)]

\* ------------------------------------------- file system with symbolic links
\* the most symbolic links one path resolution follows before it fails
MaxSymlinks == 3

\* fs.realpath: the path with every symbolic link replaced by its target.
\* It fails on a missing entry, below a directory that may not be
\* searched, and after too many links.  Link targets are absolute paths.
RECURSIVE realpathFrom(_, _, _)
realpathFrom(done, rest, hops) ==
  IF rest = <<>> THEN Some(done)
  ELSE IF done \in denied THEN undefined
  ELSE LET next == Append(done, Head(rest))
       IN  IF next \in DOMAIN links
           THEN IF hops = 0 THEN undefined
                ELSE realpathFrom(<<>>, links[next] \o Tail(rest), hops - 1)
           ELSE IF isFile(next)
                THEN IF Tail(rest) = <<>> THEN Some(next) ELSE undefined
           ELSE IF isDirectory(next) THEN realpathFrom(next, Tail(rest), hops)
           ELSE undefined

realpath(p) == realpathFrom(<<>>, p, MaxSymlinks)

\* fs.readdir of a path that leads to a directory: the names of its files,
\* directories and links; undefined when the call fails
readdir(dirPath) ==
  LET real == realpath(dirPath)
  IN  IF real = undefined \/ ~isDirectory(real[1]) \/ real[1] \in denied THEN undefined
      ELSE Some(entries(real[1])
                \cup {basename(l) : l \in {k \in DOMAIN links : dirname(k) = real[1]}})

\* fs.readFile through links; undefined when the call fails
readFile(filePath) ==
  LET real == realpath(filePath)
  IN  IF real = undefined \/ ~isFile(real[1]) THEN undefined
      ELSE IF ~fs[real[1]].readable THEN undefined
      ELSE Some(fs[real[1]])

\* String.prototype.startsWith(rootPath + path.sep) or equality: for the
\* root '/' the prefix is '//', which no path starts with
withinRoot(p, rootPath) ==
  p = rootPath \/ (rootPath # <<>> /\ IsPrefix(rootPath, p))

\* ------------------------------------------------------------------ symbols
\* Beside the three statement forms of the dependency analysis a file may
\* hold declarations: `[export] function <name>() { <body> }`, where the
\* name is missing in `export default function () {}`, `[export] const
\* <name> = <value>`, `[export] class <name> {}`, and an expression
\* statement such as `describe(() => { <body> })`.  A body is a sequence of
\* declarations, each indented on a line of its own.
bodyOf(st) == IF st.kind \in {"function", "expression"} THEN st.body ELSE <<>>

\* the declarations of a file in the order of the text, each with the line
\* it starts on and whether it stands at file scope
declarations(content) ==
  LET flat == Flatten([i \in 1..Len(content.stmts) |->
                <<[decl |-> content.stmts[i], top |-> TRUE]>>
                \o [j \in 1..Len(bodyOf(content.stmts[i])) |->
                     [decl |-> bodyOf(content.stmts[i])[j], top |-> FALSE]]])
  IN  [k \in 1..Len(flat) |-> [decl |-> flat[k].decl, top |-> flat[k].top, line |-> k]]

Symbol(name, kind, exported, line) ==
  [name |-> name, kind |-> kind, exported |-> exported, line |-> line]

isNamed(d) == d.kind \in {"function", "const", "class"} /\ d.name # undefined

\* ast-symbols.ts visitTopLevel: one symbol for every named declaration
\* among the statements of the source file, and no recursion into them
visitTopLevel(content) ==
  LET ds  == declarations(content)
      sel == SelectSeq(ds, LAMBDA x : x.top /\ (x.decl.kind = "export" \/ isNamed(x.decl)))
  IN  [k \in 1..Len(sel) |->
        IF sel[k].decl.kind = "export"
        THEN Symbol(sel[k].decl.name, "function", TRUE, sel[k].line)
        ELSE Symbol(sel[k].decl.name[1], sel[k].decl.kind, sel[k].decl.exported, sel[k].line)]

shouldUseAST(filePath) ==
  extname(basename(filePath)) \in {Some("ts"), Some("tsx"), Some("js"), Some("jsx")}

\* extractASTSymbols: [] when the file cannot be read or parsed
extractASTSymbols(filePath) ==
  IF readFile(filePath) = undefined \/ readFile(filePath)[1].malformed THEN <<>>
  ELSE visitTopLevel(readFile(filePath)[1])

\* symbols.sort((a, b) => a.line - b.line) for symbols on distinct lines
sortByLine(symbols, lastLine) ==
  Flatten([k \in 1..lastLine |-> SelectSeq(symbols, LAMBDA x : x.line = k)])

\* symbols.ts getLanguage, for the extensions with patterns
getLanguage(ext) ==
  IF ext \in {Some("ts"), Some("tsx")} THEN Some("typescript")
  ELSE IF ext \in {Some("js"), Some("jsx"), Some("mjs"), Some("cjs")} THEN Some("javascript")
  ELSE IF ext = Some("py") THEN Some("python")
  ELSE undefined

\* SYMBOL_PATTERNS, typescript and javascript, on the modelled forms: the
\* matches of each pattern in the order of the text.  `export function`
\* and a `function` at the start of a line match at file scope only; the
\* class and const patterns are not anchored and match in a body too.
patternMatches(content) ==
  LET ds == declarations(content)
      exportedFunctions ==
        SelectSeq(ds, LAMBDA x : x.decl.kind = "export"
                     \/ (x.decl.kind = "function" /\ isNamed(x.decl) /\ x.decl.exported))
      lineStartFunctions ==
        SelectSeq(ds, LAMBDA x : x.decl.kind = "function" /\ isNamed(x.decl)
                     /\ ~x.decl.exported /\ x.top)
      classes == SelectSeq(ds, LAMBDA x : x.decl.kind = "class" /\ isNamed(x.decl))
      consts  == SelectSeq(ds, LAMBDA x : x.decl.kind = "const" /\ isNamed(x.decl))
      nameOf(x) == IF x.decl.kind = "export" THEN x.decl.name ELSE x.decl.name[1]
  IN  [k \in 1..Len(exportedFunctions) |->
         Symbol(nameOf(exportedFunctions[k]), "function", TRUE, exportedFunctions[k].line)]
      \o [k \in 1..Len(lineStartFunctions) |->
         Symbol(nameOf(lineStartFunctions[k]), "function", FALSE, lineStartFunctions[k].line)]
      \o [k \in 1..Len(classes) |-> Symbol(nameOf(classes[k]), "class", FALSE, classes[k].line)]
      \o [k \in 1..Len(consts) |-> Symbol(nameOf(consts[k]), "const", FALSE, consts[k].line)]

\* `if (symbols.some(s => s.name === name)) continue`
withoutRepeatedNames(matches) ==
  LET keep == {k \in 1..Len(matches) : \A j \in 1..(k - 1) : matches[j].name # matches[k].name}
  IN  SelectSeq([k \in 1..Len(matches) |-> [m |-> matches[k], k |-> k]],
                LAMBDA x : x.k \in keep)

\* extractSymbolsWithRegex: undefined when reading the file fails
extractSymbolsWithRegex(filePath) ==
  IF readFile(filePath) = undefined THEN undefined
  ELSE IF getLanguage(extname(basename(filePath))) = undefined THEN Some(<<>>)
  ELSE LET content == readFile(filePath)[1]
           kept    == withoutRepeatedNames(patternMatches(content))
       IN  Some(sortByLine([k \in 1..Len(kept) |-> kept[k].m],
                           Len(declarations(content))))

\* symbols.ts extractSymbols: the AST symbols unless there are none
extractSymbols(filePath) ==
  IF shouldUseAST(filePath) /\ extractASTSymbols(filePath) # <<>>
  THEN Some(sortByLine(extractASTSymbols(filePath),
                       Len(declarations(readFile(filePath)[1]))))
  ELSE extractSymbolsWithRegex(filePath)

\* ------------------------------------------------------------ the explorer
\* a skip pattern: a name, or '*' followed by a suffix
Name(text) == [star |-> FALSE, text |-> text]

Star(suffix) == [star |-> TRUE, text |-> suffix]

\* types.ts DEFAULT_SKIP_PATTERNS
DEFAULT_SKIP_PATTERNS ==
  << Name(<<"node_modules">>), Name(<<"", "git">>), Name(<<"dist">>), Name(<<"build">>),
     Name(<<"", "next">>), Name(<<"out">>), Name(<<"coverage">>), Name(<<"", "cache">>),
     Star(<<"log">>), Name(<<"", "DS_Store">>), Name(<<"tmp">>), Name(<<"temp">>),
     Name(<<"__pycache__">>), Name(<<"", "nyc_output">>), Name(<<"", "turbo">>),
     Name(<<"", "vercel">>), Name(<<"", "netlify">>), Name(<<"package-lock", "json">>),
     Name(<<"yarn", "lock">>), Name(<<"pnpm-lock", "yaml">>), Star(<<"d", "ts">>) >>

\* minimatch(name, '*.' + suffix): the name ends with '.' and the suffix
\* and does not start with a dot
minimatch(name, suffix) ==
  /\ Len(name) > Len(suffix)
  /\ Suffix(name, Len(name) - Len(suffix)) = suffix
  /\ name[1] # ""

\* shouldSkip: the name is the pattern, or the full path holds the pattern
\* between two slashes
shouldSkip(name, fullPath, skipPatterns) ==
  \E k \in 1..Len(skipPatterns) :
    IF skipPatterns[k].star THEN minimatch(name, skipPatterns[k].text)
    ELSE \/ name = skipPatterns[k].text
         \/ \E i \in 1..(Len(fullPath) - 1) : fullPath[i] = skipPatterns[k].text

codeExtensions ==
  {"ts", "tsx", "js", "jsx", "mjs", "cjs", "py", "java", "cpp", "c", "h", "hpp", "go", "rs",
   "rb", "php", "cs", "swift", "kt", "scala", "r", "m", "mm", "vue", "svelte", "lua",
   "dart", "elm", "clj"}

isCodeFile(filePath) ==
  extname(basename(filePath)) # undefined /\ extname(basename(filePath))[1] \in codeExtensions

\* isPathSafe: the entry path itself, without following links
isPathSafe(targetPath, rootPath) == withinRoot(targetPath, rootPath)

\* A TreeNode without its children: the tree is the sequence of its nodes
\* in the order they are created, each with its level below the root.
\* touched holds the file system calls made on the node's content.
TreeNode(name, type, path, level) ==
  [name |-> name, type |-> type, path |-> path, level |-> level, placeholder |-> FALSE,
   error |-> undefined, preview |-> undefined, symbols |-> undefined,
   exports |-> undefined, dependencies |-> undefined, dependents |-> undefined,
   touched |-> {}]

\* the node `... N items` or `... N more items`
Placeholder(level) ==
  [TreeNode(<<"...">>, "file", <<>>, level) EXCEPT !.placeholder = TRUE]

\* symbols.slice(0, max_symbols) when there are more than max_symbols
sliced(symbols, max_symbols) ==
  IF lessThan(max_symbols, Number(Len(symbols)))
  THEN Prefix(symbols, Max(0, max_symbols.num \div max_symbols.den))
  ELSE symbols

\* createFileNode: the file is read for its statistics, previewed when
\* preview_lines > 0, searched for symbols when asked, and annotated from
\* the dependency graph under the key path.relative(process.cwd(), filePath)
createFileNode(filePath, level, options) ==
  LET found   == extractSymbols(filePath)
      shown   == IF options.symbols_only_exported
                 THEN SelectSeq(found[1], LAMBDA x : x.exported)
                 ELSE found[1]
      relativePath == relative(cwd, filePath)
      annotate == /\ options.show_dependency_graph /\ options.dependencyGraph # undefined
                  /\ isCodeFile(filePath)
                  /\ mapHas(options.dependencyGraph[1].nodes, relativePath)
      depNode == mapGet(options.dependencyGraph[1].nodes, relativePath)
  IN  [TreeNode(basename(filePath), "file", filePath, level) EXCEPT
        !.touched = {"readFile"}
                    \cup (IF lessThan(Number(0), options.preview_lines)
                          THEN {"preview"} ELSE {})
                    \cup (IF options.show_symbols /\ isCodeFile(filePath)
                          THEN {"symbols"} ELSE {}),
        !.preview = IF lessThan(Number(0), options.preview_lines)
                    THEN Some(options.preview_lines) ELSE undefined,
        !.symbols = IF options.show_symbols /\ isCodeFile(filePath) /\ found # undefined
                    THEN Some(sliced(shown, options.max_symbols)) ELSE undefined,
        !.exports      = IF annotate THEN Some(depNode.exports) ELSE undefined,
        !.dependencies = IF annotate THEN Some(depNode.imports) ELSE undefined,
        !.dependents   = IF annotate THEN Some(depNode.dependents) ELSE undefined]

\* the names that occur, in the order of String.prototype.localeCompare
localeOrder ==
  << <<"a", "ts">>, <<"b", "js">>, <<"c", "tsx">>, <<"index", "js">>, <<"index", "ts">>,
     <<"k", "ts">>, <<"l">>, <<"lib">>, <<"lib", "js">>, <<"lib", "ts">>, <<"m", "js">>, <<"m", "mjs">>,
     <<"m", "ts">>, <<"node_modules">>, <<"p">>, <<"q">>, <<"r">>, <<"root">>, <<"s">>, <<"tmp">>, <<"x", "ts">> >>

\* entries.sort((a, b) => a.localeCompare(b))
sortedEntries(names) == SelectSeq(localeOrder, LAMBDA n : n \in names)

LARGE_DIR_THRESHOLD == 50

\* traverseDirectory and the loop over the entries of a directory: the
\* nodes of the subtree in the order they are created
RECURSIVE traverseDirectory(_, _, _)
RECURSIVE processEntries(_, _, _, _, _, _)
processEntries(dirPath, sorted, i, fileCount, currentDepth, options) ==
  IF i > Len(sorted) THEN <<>>
  ELSE IF atLeast(Number(fileCount), options.max_files)
       THEN <<Placeholder(currentDepth + 1)>>
  ELSE LET entry     == sorted[i]
           entryPath == Append(dirPath, entry)
           rest(n)   == processEntries(dirPath, sorted, i + 1, n, currentDepth, options)
       IN  IF shouldSkip(entry, entryPath, options.skip_patterns) THEN rest(fileCount)
           ELSE IF ~isPathSafe(entryPath, options.rootPath) THEN rest(fileCount)
           ELSE IF realpath(entryPath) = undefined
                THEN <<[TreeNode(entry, "file", entryPath, currentDepth + 1) EXCEPT
                          !.error = Some("Permission denied")]>> \o rest(fileCount)
           ELSE IF ~withinRoot(realpath(entryPath)[1], options.rootPath) THEN rest(fileCount)
           ELSE IF isDirectory(realpath(entryPath)[1])
                THEN traverseDirectory(entryPath, currentDepth + 1, options) \o rest(fileCount)
           ELSE <<createFileNode(entryPath, currentDepth + 1, options)>> \o rest(fileCount + 1)

traverseDirectory(dirPath, currentDepth, options) ==
  LET name == basename(dirPath)
      node == TreeNode(name, "directory", dirPath, currentDepth)
      list == readdir(dirPath)
  IN  IF realpath(dirPath) = undefined
      THEN <<[node EXCEPT !.error = Some("Cannot access")]>>
      ELSE IF shouldSkip(name, dirPath, options.skip_patterns) THEN <<node>>
      ELSE IF ~isDirectory(realpath(dirPath)[1])
           THEN <<createFileNode(dirPath, currentDepth, options)>>
      ELSE IF list = undefined
           THEN <<[node EXCEPT !.error = Some("Permission denied"), !.touched = {"readdir"}]>>
      ELSE IF atLeast(Number(currentDepth), options.depth)
           THEN <<[node EXCEPT !.touched = {"readdir"}], Placeholder(currentDepth + 1)>>
      ELSE <<[node EXCEPT !.touched = {"readdir"},
                          !.error = IF Cardinality(list[1]) > LARGE_DIR_THRESHOLD
                                       /\ currentDepth = 0
                                    THEN Some("Large directory") ELSE undefined]>>
           \o processEntries(dirPath, sortedEntries(list[1]), 1, 0, currentDepth, options)

\* ------------------------------------------------------------ the inputs
Root == << <<"p">> >>

Missing == << <<"q">> >>

\* the paths an analysis is asked for: the project directory, a path that
\* does not exist, and a single file
Targets == {Root, Missing, Root \o << <<"a", "ts">> >>}

Import(spec) == [kind |-> "import", spec |-> spec]

Export(name) == [kind |-> "export", name |-> name]

RequireCall == [kind |-> "call"]

File(readable, malformed, stmts) ==
  [readable |-> readable, malformed |-> malformed, stmts |-> stmts]

\* the statement sequences of at most n statements over a set of statements
RECURSIVE SeqsUpTo(_, _)
SeqsUpTo(S, n) ==
  IF n = 0 THEN {<<>>}
  ELSE SeqsUpTo(S, n - 1) \cup {Append(q, x) : q \in {r \in SeqsUpTo(S, n - 1) : Len(r) = n - 1}, x \in S}

\* every file system over the candidates cands that holds at most k
\* statements in all.  A candidate is a record: the path, the flags and the
\* statements the file may have, the most statements it may hold (max), and
\* whether the file may be absent (optional).
RECURSIVE FileSystemsOver(_, _)
FileSystemsOver(cands, k) ==
  IF cands = <<>> THEN {<<>>}
  ELSE LET c == Head(cands)
           present == UNION {{(c.path :> File(fl.readable, fl.malformed, body)) @@ rest
                              : rest \in FileSystemsOver(Tail(cands), k - Len(body))}
                             : fl \in c.flags,
                               body \in SeqsUpTo(c.stmts, IF k < c.max THEN k ELSE c.max)}
       IN  IF c.optional THEN present \cup FileSystemsOver(Tail(cands), k) ELSE present

Plain == {[readable |-> TRUE, malformed |-> FALSE]}

\* two files side by side that import each other or themselves: one parsed
\* with the AST and the regex, the other with the regex only
PairCandidates ==
  << [path |-> Root \o << <<"a", "ts">> >>, optional |-> FALSE, flags |-> Plain, max |-> 2,
      stmts |-> {Import(<<Dot, <<"b">>>>), Import(<<Dot, <<"a">>>>)}],
     [path |-> Root \o << <<"b", "js">> >>, optional |-> TRUE, flags |-> Plain, max |-> 1,
      stmts |-> {Import(<<Dot, <<"a">>>>)}] >>

\* a project tree: two files at the root, an index file in a directory, a
\* file in a skipped directory and a file outside the root.  The imports
\* of a.ts cover every way a specifier can resolve or fail to resolve.
TreeCandidates ==
  << [path |-> Root \o << <<"a", "ts">> >>, optional |-> FALSE, flags |-> Plain, max |-> 2,
      stmts |-> {Import(<<Dot, <<"b">>>>),
                 Import(<<Dot, <<"b", "js">>>>),
                 Import(<<Dot, <<"lib">>>>),
                 Import(<<Dot, <<"node_modules">>, <<"m">>>>),
                 Import(<<DotDot, <<"x">>>>),
                 Import(<< <<"b">> >>),
                 Import(<< <<"">>, <<"p">>, <<"b">> >>),
                 Import(<<Dot, <<"zz">>>>)}],
     [path |-> Root \o << <<"b", "js">> >>, optional |-> FALSE, flags |-> Plain, max |-> 2,
      stmts |-> {Import(<<Dot, <<"a">>>>), Import(<<Dot, <<"lib">>>>)}],
     [path |-> Root \o << <<"lib">>, <<"index", "ts">> >>, optional |-> TRUE,
      flags |-> Plain, max |-> 1,
      stmts |-> {Import(<<DotDot, <<"a">>>>), Import(<<Dot, <<"index">>>>)}],
     [path |-> Root \o << <<"node_modules">>, <<"m", "ts">> >>, optional |-> FALSE,
      flags |-> Plain, max |-> 0, stmts |-> {}],
     [path |-> << <<"x", "ts">> >>, optional |-> FALSE,
      flags |-> Plain, max |-> 0, stmts |-> {}] >>

\* files that cannot be read and files the TypeScript parser fails on
FaultCandidates ==
  << [path |-> Root \o << <<"a", "ts">> >>, optional |-> FALSE,
      flags |-> [readable : BOOLEAN, malformed : BOOLEAN], max |-> 2,
      stmts |-> {Import(<<Dot, <<"b">>>>), Export("f"), RequireCall}],
     [path |-> Root \o << <<"b", "js">> >>, optional |-> FALSE,
      flags |-> [readable : BOOLEAN, malformed : {FALSE}], max |-> 1,
      stmts |-> {Import(<<Dot, <<"a">>>>), Export("g")}],
     [path |-> Root \o << <<"c", "tsx">> >>, optional |-> TRUE,
      flags |-> [readable : {TRUE}, malformed : BOOLEAN], max |-> 0, stmts |-> {}] >>

\* one import of './lib' next to files lib.<ext> and index files of a
\* directory lib, in every combination
PriorityCandidates ==
  << [path |-> Root \o << <<"a", "ts">> >>, optional |-> FALSE, flags |-> Plain, max |-> 1,
      stmts |-> {Import(<<Dot, <<"lib">>>>)}],
     [path |-> Root \o << <<"lib", "ts">> >>, optional |-> TRUE, flags |-> Plain,
      max |-> 0, stmts |-> {}],
     [path |-> Root \o << <<"lib", "js">> >>, optional |-> TRUE, flags |-> Plain,
      max |-> 0, stmts |-> {}],
     [path |-> Root \o << <<"lib">>, <<"index", "ts">> >>, optional |-> TRUE,
      flags |-> Plain, max |-> 0, stmts |-> {}],
     [path |-> Root \o << <<"lib">>, <<"index", "js">> >>, optional |-> TRUE,
      flags |-> Plain, max |-> 0, stmts |-> {}] >>

\* a file at the root next to files in directories named root and lib
SentinelCandidates ==
  << [path |-> Root \o << <<"a", "ts">> >>, optional |-> FALSE, flags |-> Plain, max |-> 1,
      stmts |-> {Import(<<Dot, <<"root">>, <<"k">>>>)}],
     [path |-> Root \o << <<"root">>, <<"k", "ts">> >>, optional |-> FALSE, flags |-> Plain,
      max |-> 1, stmts |-> {Import(<<DotDot, <<"a">>>>)}],
     [path |-> Root \o << <<"lib">>, <<"index", "ts">> >>, optional |-> TRUE, flags |-> Plain,
      max |-> 0, stmts |-> {}] >>

\* what the caller does: the file system it runs on and how many analyses
\* it starts, one after the other
Scenarios ==
  [fs : FileSystemsOver(PairCandidates, MaxStatements), calls : {MaxCalls}]
  \cup [fs : FileSystemsOver(TreeCandidates, MaxStatements)
             \cup FileSystemsOver(FaultCandidates, MaxStatements)
             \cup FileSystemsOver(PriorityCandidates, MaxStatements)
             \cup FileSystemsOver(SentinelCandidates, MaxStatements), calls : {1}]

\* -------------------------------------------------------- the state machine
\* fs         the file system (never written by the analysis)
\* callsLeft  how many more analyses the caller will start
\* heap       the DependencyGraph objects, by identity
\* analyzers  the DependencyAnalyzer instances: rootPath and graph identity
\* call       the analysis in flight: position, analyzer, target, file list
\* returned   the outcome of every finished call, with the graph as it was
\*            when it was returned
\* reads      the fs.readFile calls made by the analysis in flight
\* links      the symbolic links of the file system, each with its target
\* denied     the directories the process may neither list nor search
\* cwd        process.cwd()
\* request    what an entry point was given for one call of exploreTree
\* explore    the call of exploreTree: position, options, result
\* formatted  the calls of the graph formatters, each with its output
\* suspended  the analyses that wait at an await while another one runs
\* the dependency analysis used on its own: no call of exploreTree
NoRequest == [entry |-> "none"]

NotExploring == [pc |-> "none"]

Idle == [pc |-> "idle", analyzer |-> 0, targetPath |-> <<>>, files |-> <<>>, idx |-> 0]

Init ==
  /\ \E s \in Scenarios : fs = s.fs /\ callsLeft = s.calls
  /\ heap = <<>>
  /\ analyzers = <<>>
  /\ call = Idle
  /\ returned = <<>>
  /\ reads = 0
  /\ links = <<>> /\ denied = {} /\ cwd = Root
  /\ request = NoRequest
  /\ explore = NotExploring
  /\ formatted = <<>> /\ suspended = <<>>

Settled == call.pc \in {"idle", "done", "rejected"}

Graph == heap[analyzers[call.analyzer].graph]

\* DependencyAnalyzer.analyzeDependencies up to its first await: the reset
\* of the analyzer's graph object, then the call of collectFiles
Begin(a, targetPath) ==
  /\ callsLeft' = callsLeft - 1
  /\ call' = [pc |-> "collect", analyzer |-> a, targetPath |-> targetPath,
              files |-> <<>>, idx |-> 0]
  /\ reads' = 0
  /\ UNCHANGED <<fs, returned, explorerVars, formatted>>

\* the exported analyzeDependencies(rootPath): a new analyzer for every call
AnalyzeDependencies(rootPath) ==
  /\ Settled /\ callsLeft > 0
  /\ UNCHANGED suspended
  /\ analyzers' = Append(analyzers, [rootPath |-> rootPath, graph |-> Len(heap) + 1])
  /\ heap' = Append(heap, resetGraph(emptyGraph))
  /\ Begin(Len(analyzers) + 1, rootPath)

\* analyzer.analyzeDependencies(targetPath) on an analyzer used before
AnalyzeAgain(a, targetPath) ==
  /\ Settled /\ callsLeft > 0
  /\ heap' = [heap EXCEPT ![analyzers[a].graph] = resetGraph(@)]
  /\ UNCHANGED <<analyzers, suspended>>
  /\ Begin(a, targetPath)

Reject ==
  /\ call' = [call EXCEPT !.pc = "rejected"]
  /\ returned' = Append(returned,
       [status |-> "rejected", target |-> call.targetPath,
        rootPath |-> analyzers[call.analyzer].rootPath, files |-> <<>>,
        graph |-> 0, value |-> undefined])

CollectFiles ==
  /\ call.pc = "collect"
  /\ IF collectFiles(call.targetPath) = {}
     THEN Reject
     ELSE /\ \E files \in collectFiles(call.targetPath) :
               call' = [call EXCEPT !.pc = "parse", !.files = files, !.idx = 1]
          /\ UNCHANGED returned
  /\ UNCHANGED <<fs, callsLeft, heap, analyzers, reads, explorerVars, callerVars>>

ParseFile ==
  /\ call.pc = "parse" /\ call.idx <= Len(call.files)
  /\ heap' = [heap EXCEPT ![analyzers[call.analyzer].graph] =
                parseFile(@, analyzers[call.analyzer].rootPath, call.files[call.idx])]
  /\ reads' = reads + 1
  /\ call' = [call EXCEPT !.idx = @ + 1]
  /\ UNCHANGED <<fs, callsLeft, analyzers, returned, explorerVars, callerVars>>

\* one synchronous pass over this.graph
Pass(from, to, graph) ==
  /\ call.pc = from
  /\ heap' = [heap EXCEPT ![analyzers[call.analyzer].graph] = graph]
  /\ call' = [call EXCEPT !.pc = to]
  /\ UNCHANGED <<fs, callsLeft, analyzers, reads, explorerVars, callerVars>>

BuildDependencyGraphEarly ==
  /\ Pass("parse", "cycles", buildDependencyGraph(Graph))
  /\ UNCHANGED returned

\* lines 53-58: the loop over the collected files has ended
BuildDependencyGraph ==
  /\ call.idx > Len(call.files)
  /\ Pass("parse", "cycles", buildDependencyGraph(Graph))
  /\ UNCHANGED returned

DetectCircularDependencies ==
  /\ Pass("cycles", "clusters", detectCircularDependencies(Graph))
  /\ UNCHANGED returned

CalculateClusters ==
  /\ Pass("clusters", "stats", calculateClusters(Graph))
  /\ UNCHANGED returned

\* the last pass and the return of this.graph
CalculateStats ==
  /\ Pass("stats", "done", calculateStats(Graph))
  /\ returned' = Append(returned,
       [status |-> "resolved", target |-> call.targetPath,
        rootPath |-> analyzers[call.analyzer].rootPath, files |-> call.files,
        graph  |-> analyzers[call.analyzer].graph,
        value  |-> Some(heap'[analyzers[call.analyzer].graph])])

Next ==
  \/ \E t \in Targets : AnalyzeDependencies(t)
  \/ \E a \in 1..Len(analyzers), t \in Targets : AnalyzeAgain(a, t)
  \/ CollectFiles
  \/ ParseFile
  \/ BuildDependencyGraph
  \/ DetectCircularDependencies
  \/ CalculateClusters
  \/ CalculateStats

Spec == Init /\ [][Next]_vars

\* ---------------------------------------------------- overlapping analyses
\* the analysis in flight stands at an await, or there is none: another
\* asynchronous function can run now
Awaiting == Settled \/ call.pc \in {"collect", "parse", "cycles"}

\* the analysis in flight, set aside while another one runs
Waiting == [call |-> call, reads |-> reads]

AnalyzeOverlappingShared(rootPath) ==
  /\ Awaiting /\ callsLeft > 0
  /\ suspended' = IF Settled THEN suspended ELSE Append(suspended, Waiting)
  /\ IF analyzers = <<>>
     THEN /\ analyzers' = <<[rootPath |-> rootPath, graph |-> 1]>>
          /\ heap' = <<resetGraph(emptyGraph)>>
     ELSE /\ analyzers' = analyzers
          /\ heap' = [heap EXCEPT ![analyzers[1].graph] = resetGraph(@)]
  /\ Begin(1, rootPath)

\* the exported analyzeDependencies(rootPath), called while the analyses
\* called before may still be under way: a new analyzer for this call
AnalyzeOverlapping(rootPath) ==
  /\ Awaiting /\ callsLeft > 0
  /\ suspended' = IF Settled THEN suspended ELSE Append(suspended, Waiting)
  /\ analyzers' = Append(analyzers, [rootPath |-> rootPath, graph |-> Len(heap) + 1])
  /\ heap' = Append(heap, resetGraph(emptyGraph))
  /\ Begin(Len(analyzers) + 1, rootPath)

\* the event loop continues an analysis that waited
Resume(i) ==
  /\ Awaiting
  /\ call' = suspended[i].call
  /\ reads' = suspended[i].reads
  /\ suspended' = IF Settled
                  THEN Prefix(suspended, i - 1) \o Suffix(suspended, i)
                  ELSE [suspended EXCEPT ![i] = Waiting]
  /\ UNCHANGED <<fs, callsLeft, heap, analyzers, returned, explorerVars, formatted>>

\* the callers of overlapping analyses: requests that name the project
\* directory or a path that does not exist, over the two files side by side
OverlapTargets == {Root, Missing}

OverlapInit ==
  /\ fs \in FileSystemsOver(PairCandidates, MaxStatements)
  /\ callsLeft = MaxCalls
  /\ heap = <<>>
  /\ analyzers = <<>>
  /\ call = Idle
  /\ returned = <<>>
  /\ reads = 0
  /\ links = <<>> /\ denied = {} /\ cwd = Root
  /\ request = NoRequest
  /\ explore = NotExploring
  /\ formatted = <<>> /\ suspended = <<>>

OverlapNext ==
  \/ \E t \in OverlapTargets : AnalyzeOverlapping(t)
  \/ \E i \in 1..Len(suspended) : Resume(i)
  \/ CollectFiles
  \/ ParseFile
  \/ BuildDependencyGraph
  \/ DetectCircularDependencies
  \/ CalculateClusters
  \/ CalculateStats

OverlapSpec == OverlapInit /\ [][OverlapNext]_vars

\* ------------------------------------------------- the graph formatters
\* how many times a caller formats graphs
MaxFormats == 1

\* a formatter is called with a graph that an analysis returned
Format(name, i, out) ==
  /\ Settled /\ Len(formatted) < MaxFormats
  /\ returned[i].status = "resolved"
  /\ heap' = [heap EXCEPT ![returned[i].graph] = out.graph]
  /\ formatted' = Append(formatted,
       [format |-> name, graph |-> returned[i].graph,
        before |-> heap[returned[i].graph], after |-> out.graph, text |-> out.text])
  /\ UNCHANGED <<fs, callsLeft, analyzers, call, returned, reads, explorerVars, suspended>>

FormatDependencyGraph ==
  \E i \in 1..Len(returned) :
    Format("full", i, formatDependencyGraph(heap[returned[i].graph]))

FormatCompactDependencyGraph ==
  \E i \in 1..Len(returned) :
    Format("compact", i, formatCompactDependencyGraph(heap[returned[i].graph]))

FormatDependencyGraphJson ==
  \E i \in 1..Len(returned) :
    Format("json", i, formatDependencyGraphJson(heap[returned[i].graph]))

\* the graphs that are formatted: files at the root and in a directory,
\* with imports inside and across the two clusters
FormatCandidates ==
  << [path |-> Root \o << <<"a", "ts">> >>, optional |-> FALSE, flags |-> Plain, max |-> 1,
      stmts |-> {Import(<<Dot, <<"lib">>>>), Import(<<Dot, <<"b">>>>)}],
     [path |-> Root \o << <<"b", "js">> >>, optional |-> TRUE, flags |-> Plain, max |-> 1,
      stmts |-> {Import(<<Dot, <<"a">>>>)}],
     [path |-> Root \o << <<"lib">>, <<"index", "ts">> >>, optional |-> TRUE,
      flags |-> Plain, max |-> 1,
      stmts |-> {Import(<<DotDot, <<"a">>>>), Import(<<Dot, <<"index">>>>)}] >>

FormatInit ==
  /\ fs \in FileSystemsOver(FormatCandidates, MaxStatements)
  /\ callsLeft = 1
  /\ heap = <<>>
  /\ analyzers = <<>>
  /\ call = Idle
  /\ returned = <<>>
  /\ reads = 0
  /\ links = <<>> /\ denied = {} /\ cwd = Root
  /\ request = NoRequest
  /\ explore = NotExploring
  /\ formatted = <<>> /\ suspended = <<>>

FormatNext ==
  \/ \E t \in Targets : AnalyzeDependencies(t)
  \/ CollectFiles
  \/ ParseFile
  \/ BuildDependencyGraph
  \/ DetectCircularDependencies
  \/ CalculateClusters
  \/ CalculateStats
  \/ FormatDependencyGraph
  \/ FormatCompactDependencyGraph
  \/ FormatDependencyGraphJson

FormatSpec == FormatInit /\ [][FormatNext]_vars

\* ------------------------------------------------- the inputs of exploreTree
\* the longest text an entry point is given for a numeric parameter
MaxText == 3

Characters == {"-", "0", "1", "9", "a"}

\* the numbers a caller of exploreTree passes directly
DirectValues == {Number(n) : n \in {0 - 1, 0, 1, 5, 10, 11, 50, 51, 500, 501}}

NoText == [n \in ParamNames |-> undefined]

\* '/' followed by the segments of p
Absolute(p) == << <<"">> >> \o p

Request(entry, path, text, params, show_symbols, show_dependency_graph) ==
  [entry |-> entry, path |-> path, text |-> text, params |-> params,
   show_symbols |-> show_symbols, symbols_only_exported |-> FALSE,
   show_dependency_graph |-> show_dependency_graph]

Scenario(files, symlinks, noAccess, dir, req) ==
  [fs |-> files, links |-> symlinks, denied |-> noAccess, cwd |-> dir, request |-> req]

OneFile == (Root \o << <<"a", "ts">> >>) :> File(TRUE, FALSE, <<>>)

\* one numeric parameter given as a text to the command line or to the
\* HTTP server, or as a number to exploreTree itself
LimitScenarios ==
  {Scenario(OneFile, <<>>, {}, Root,
            Request(e, Absolute(Root), [NoText EXCEPT ![n] = Some(t)], NoText, FALSE, FALSE))
     : e \in {"cli", "http"}, n \in ParamNames, t \in SeqsUpTo(Characters, MaxText)}
  \cup {Scenario(OneFile, <<>>, {}, Root,
                 Request("direct", Absolute(Root), NoText, [NoText EXCEPT ![n] = Some(v)],
                         FALSE, FALSE))
          : n \in ParamNames, v \in DirectValues}

Function(name, exported, body) ==
  [kind |-> "function", name |-> name, exported |-> exported, body |-> body]

Const(name) == [kind |-> "const", name |-> Some(name), exported |-> FALSE, body |-> <<>>]

Class(name) == [kind |-> "class", name |-> Some(name), exported |-> FALSE, body |-> <<>>]

Expression(body) == [kind |-> "expression", body |-> body]

\* one file of at most two statements: functions with and without local
\* declarations, an anonymous default export, a constant, a call with a
\* callback that declares a constant, and an import
SymbolScenarios ==
  {Scenario((Root \o <<m>>) :> File(TRUE, FALSE, stmts), <<>>, {}, Root,
            Request("direct", Absolute(Root), NoText, NoText, TRUE, FALSE))
     : m \in {<<"m", "ts">>, <<"m", "js">>, <<"m", "mjs">>},
       stmts \in SeqsUpTo({Function(Some("f"), TRUE, <<>>),
                           Function(Some("f"), TRUE, <<Const("x")>>),
                           Function(Some("f"), FALSE, <<Const("x")>>),
                           Function(Some("g"), TRUE, <<Class("C")>>),
                           Function(undefined, TRUE, <<Const("x")>>),
                           Const("x"),
                           Expression(<<Const("x")>>),
                           Import(<<Dot, <<"a">>>>)}, 2)}

\* two files that import each other, explored with the dependency graph
\* from the root or from its parent as working directory, the root given
\* as an absolute path, as '.' or as 'p'
GraphScenarios ==
  {Scenario(files, <<>>, {}, dir,
            Request("direct", path, NoText, NoText, FALSE, TRUE))
     : files \in FileSystemsOver(PairCandidates, 2),
       dir \in {Root, <<>>},
       path \in {Absolute(Root), <<Dot>>, Root}}

\* the function that maps the paths of S to the values links gives them
Restrict(f, S) == [x \in S |-> f[x]]

LinkedFiles ==
  (Root \o << <<"a", "ts">> >>) :> File(TRUE, FALSE, <<>>)
  @@ (Root \o << <<"lib">>, <<"index", "ts">> >>) :> File(TRUE, FALSE, <<>>)
  @@ << <<"s">>, <<"k", "ts">> >> :> File(TRUE, FALSE, <<>>)
  @@ << <<"x", "ts">> >> :> File(TRUE, FALSE, <<>>)

\* a root with a file and a directory, a directory /s and a file /x.ts
\* outside of it, and up to three links: /p/l to a place inside or outside
\* the root, to the root itself or to nothing, /p/lib/l to a file, and /r
\* to the root; /s may be closed to the process
LinkScenarios ==
  {Scenario(LinkedFiles,
            Restrict((Root \o << <<"l">> >>) :> first
                     @@ (Root \o << <<"lib">>, <<"l">> >>) :> second
                     @@ << <<"r">> >> :> Root, which),
            closed, Root,
            Request("direct", Absolute(path), NoText, NoText, FALSE, FALSE))
     : first \in {<< <<"s">> >>, << <<"s">>, <<"k", "ts">> >>, Root \o << <<"lib">> >>,
                  << <<"x", "ts">> >>, Missing, Root},
       second \in {<< <<"s">>, <<"k", "ts">> >>, Root \o << <<"a", "ts">> >>},
       which \in SUBSET {Root \o << <<"l">> >>, Root \o << <<"lib">>, <<"l">> >>, << <<"r">> >>},
       closed \in {{}, {<< <<"s">> >>}},
       path \in {Root, << <<"r">> >>}}

\* the same project in four places: /p, /s/p, /tmp/p (below a directory
\* named like a skip pattern) and /s/tmp (named like a skip pattern itself)
ProjectPlaces ==
  {Root, << <<"s">>, <<"p">> >>, << <<"tmp">>, <<"p">> >>, << <<"s">>, <<"tmp">> >>}

\* the files of the project, placed below dir
ProjectAt(dir) ==
  (dir \o << <<"a", "ts">> >>) :> File(TRUE, FALSE, <<>>)
  @@ (dir \o << <<"lib">>, <<"index", "ts">> >>) :> File(TRUE, FALSE, <<>>)

PlaceScenarios ==
  {Scenario(ProjectAt(Root) @@ ProjectAt(<< <<"s">>, <<"p">> >>)
            @@ ProjectAt(<< <<"tmp">>, <<"p">> >>) @@ ProjectAt(<< <<"s">>, <<"tmp">> >>),
            <<>>, {}, Root,
            Request("direct", Absolute(place), NoText, NoText, symbols, FALSE))
     : place \in ProjectPlaces, symbols \in BOOLEAN}

ExploreScenarios ==
  LimitScenarios \cup SymbolScenarios \cup GraphScenarios \cup LinkScenarios
  \cup PlaceScenarios

\* ------------------------------------------------- exploreTree, step by step
Start == [pc |-> "start", params |-> NoText, options |-> undefined,
          rootPath |-> undefined, tree |-> <<>>]

ExploreInit ==
  /\ \E s \in ExploreScenarios :
       /\ fs = s.fs /\ links = s.links /\ denied = s.denied /\ cwd = s.cwd
       /\ request = s.request
  /\ callsLeft = 1
  /\ heap = <<>>
  /\ analyzers = <<>>
  /\ call = Idle
  /\ returned = <<>>
  /\ reads = 0
  /\ explore = Start
  /\ formatted = <<>> /\ suspended = <<>>

\* an entry point has built the parameters and calls exploreTree
Enter(params) ==
  /\ explore.pc = "start"
  /\ explore' = [explore EXCEPT !.pc = "called", !.params = params]
  /\ UNCHANGED <<fs, callsLeft, heap, analyzers, call, returned, reads,
                 links, denied, cwd, request, callerVars>>

RunCli ==
  /\ request.entry = "cli"
  /\ Enter(parseArgs(request.text))

RunServer ==
  /\ request.entry = "http"
  /\ Enter(runServer(request.text))

\* index.ts: the arguments of the tool call are passed on as they are
CallTool ==
  /\ request.entry = "direct"
  /\ Enter(request.params)

\* validatePath: the real path of the input, resolved against the working
\* directory; undefined when nothing exists there
validatePath(inputPath) == realpath(resolve(cwd, inputPath))

\* exploreTree up to the dependency analysis: the path is validated and
\* the limits are applied
ExploreTree ==
  /\ explore.pc = "called"
  /\ explore' =
       IF validatePath(request.path) = undefined
       THEN [explore EXCEPT !.pc = "rejected"]
       ELSE [explore EXCEPT
               !.pc = IF request.show_dependency_graph THEN "analyze" ELSE "traverse",
               !.options = Some(validatedLimits(explore.params)),
               !.rootPath = validatePath(request.path)]
  /\ UNCHANGED <<fs, callsLeft, heap, analyzers, call, returned, reads,
                 links, denied, cwd, request, callerVars>>

\* `await analyzeDependencies(validatedRootPath)`
ExploreAnalyze ==
  /\ explore.pc = "analyze"
  /\ AnalyzeDependencies(explore.rootPath[1])

\* the options exploreTree hands to traverseDirectory
TraverseOptions ==
  [depth         |-> explore.options[1].depth,
   preview_lines |-> explore.options[1].preview_lines,
   max_symbols   |-> explore.options[1].max_symbols,
   max_files     |-> explore.options[1].max_files,
   show_symbols  |-> request.show_symbols,
   symbols_only_exported |-> request.symbols_only_exported,
   show_dependency_graph |-> request.show_dependency_graph,
   skip_patterns |-> DEFAULT_SKIP_PATTERNS,
   dependencyGraph |-> IF request.show_dependency_graph THEN Some(Graph) ELSE undefined,
   rootPath      |-> explore.rootPath[1]]

\* the traversal from the validated root and the return of the tree
TraverseDirectory ==
  /\ \/ explore.pc = "traverse"
     \/ explore.pc = "analyze" /\ call.pc \in {"done", "rejected"}
  /\ explore' =
       IF call.pc = "rejected" THEN [explore EXCEPT !.pc = "rejected"]
       ELSE [explore EXCEPT
               !.pc = "done",
               !.tree = traverseDirectory(explore.rootPath[1], 0, TraverseOptions)]
  /\ UNCHANGED <<fs, callsLeft, heap, analyzers, call, returned, reads,
                 links, denied, cwd, request, callerVars>>

ExploreNext ==
  \/ RunCli
  \/ RunServer
  \/ CallTool
  \/ ExploreTree
  \/ ExploreAnalyze
  \/ CollectFiles
  \/ ParseFile
  \/ BuildDependencyGraph
  \/ DetectCircularDependencies
  \/ CalculateClusters
  \/ CalculateStats
  \/ TraverseDirectory

ExploreSpec == ExploreInit /\ [][ExploreNext]_vars

\* ------------------------------------------------------------- properties
\* the graphs returned so far, each with the call that returned it
Returned == {r \in Range(returned) : r.status = "resolved"}

Edges(r) == Range(r.value[1].edges)

Nodes(r) == Range(r.value[1].nodes)

Keys(r) == {n.path : n \in Nodes(r)}

Imports(n) == Range(n.imports)

\* C1: in every returned graph, the `from` and the `to` of every edge are
\* keys of the node map, also when imports resolve to existing files that
\* are not in the inventory.
C1_EdgesJoinNodes ==
  \A r \in Returned : \A e \in Edges(r) : e.from \in Keys(r) /\ e.to \in Keys(r)

\* a returned graph with an edge, an import resolved to a file outside the
\* root and an import resolved to a file of a skipped directory
C1_Witness ==
  \E r \in Returned :
    /\ Edges(r) # {}
    /\ \E n \in Nodes(r) : \E d \in Imports(n) :
         Truthy(d.resolvedPath) /\ d.resolvedPath[1][1] = DotDot
         /\ d.resolvedPath[1] \notin Keys(r)
    /\ \E n \in Nodes(r) : \E d \in Imports(n) :
         Truthy(d.resolvedPath) /\ d.resolvedPath[1][1] = <<"node_modules">>
         /\ d.resolvedPath[1] \notin Keys(r)

\* the absolute path of the file a node stands for
AbsPath(r, n) == resolve(r.rootPath, n.path)

exists(p) == isFile(p) \/ isDirectory(p)

Cycles(r) == r.value[1].circularDependencies

\* C2 (as claimed): when the literal path dirname(F)/S of a relative
\* specifier S written in a scanned file F is a file of the inventory, the
\* returned graph has an edge from F to that file.
C2_LiteralPathGivesEdge ==
  \A r \in Returned : \A n \in Nodes(r) :
    \A st \in Range(importsOf(fs[AbsPath(r, n)])) :
      LET literal == resolve(dirname(AbsPath(r, n)), st.spec)
      IN  (startsWithDot(st.spec) /\ literal \in Range(r.files)
           /\ relative(r.rootPath, literal) \in Keys(r))
          => \E e \in Edges(r) :
               e.from = n.path /\ e.to = relative(r.rootPath, literal)

\* n holds exactly one import statement and it names the file of m
OneImportOf(r, n, m) ==
  LET imps == importsOf(fs[AbsPath(r, n)])
  IN  Len(imps) = 1
      /\ resolveImportPath(r.rootPath, imps[1].spec, AbsPath(r, n)) = Some(m.path)

\* C3 (as claimed): two files importing each other give exactly one cycle,
\* of length 2; three files importing each other in a ring give exactly one
\* cycle, of length 3; whatever the extensions and the iteration order.
C3_OneCyclePerRing ==
  \A r \in Returned :
    /\ (\E A, B \in Nodes(r) :
          /\ A # B /\ Len(r.files) = 2 /\ Keys(r) = {A.path, B.path}
          /\ OneImportOf(r, A, B) /\ OneImportOf(r, B, A))
       => (Len(Cycles(r)) = 1 /\ Cycles(r)[1].length = 2)
    /\ (\E A, B, C \in Nodes(r) :
          /\ Cardinality({A, B, C}) = 3 /\ Len(r.files) = 3
          /\ Keys(r) = {A.path, B.path, C.path}
          /\ OneImportOf(r, A, B) /\ OneImportOf(r, B, C) /\ OneImportOf(r, C, A))
       => (Len(Cycles(r)) = 1 /\ Cycles(r)[1].length = 3)

\* C4 (as claimed): a reported cycle is 'direct' exactly when its length is
\* 2 and 'indirect' exactly when its length is above 2, and no reported
\* cycle has a length below 2.
C4_TypeFollowsLength ==
  \A r \in Returned : \A c \in Range(Cycles(r)) :
    /\ (c.type = "direct") <=> (c.length = 2)
    /\ (c.type = "indirect") <=> (c.length > 2)
    /\ c.length >= 2

\* C5 (as claimed): two analyses of the same path by analyzers of the same
\* root, over the unchanged file system, return as many nodes, as many
\* edges and the same cycle list.
C5_SameFilesSameResult ==
  \A r1, r2 \in Returned :
    (r1.target = r2.target /\ r1.rootPath = r2.rootPath)
    => /\ Len(r1.value[1].nodes) = Len(r2.value[1].nodes)
       /\ Len(r1.value[1].edges) = Len(r2.value[1].edges)
       /\ Cycles(r1) = Cycles(r2)

\* C6 (as claimed): once a later analysis has finished, on a new analyzer
\* or on the same one, every graph returned before is as it was returned.
C6_ReturnedGraphIsKept ==
  Settled =>
    \A i \in 1..Len(returned) :
      returned[i].status = "resolved"
      => heap[returned[i].graph] = returned[i].value[1]

\* C7: for every cluster of a returned graph, cohesion is
\* internal / (internal + external) when that sum is positive and exactly 0
\* when it is 0; it is a number between 0 and 1, never NaN.
C7_Cohesion ==
  \A r \in Returned : \A c \in Range(r.value[1].clusters) :
    LET sum == c.internalDependencies + c.externalDependencies
    IN  /\ c.cohesion.den > 0
        /\ 0 <= c.cohesion.num /\ c.cohesion.num <= c.cohesion.den
        /\ sum > 0 => c.cohesion.num * sum = c.internalDependencies * c.cohesion.den
        /\ sum = 0 => c.cohesion = Zero

\* a returned graph with a cluster of 3 internal and 1 external dependency,
\* cohesion 3/4, and a cluster without any dependency, cohesion 0
C7_Witness ==
  \E r \in Returned :
    /\ \E c \in Range(r.value[1].clusters) :
         /\ c.internalDependencies = 3 /\ c.externalDependencies = 1
         /\ c.cohesion = [num |-> 3, den |-> 4]
    /\ \E c \in Range(r.value[1].clusters) :
         c.internalDependencies + c.externalDependencies = 0 /\ c.cohesion = Zero

\* the specifier names a file: literally, with a recognized extension
\* appended, or as the index file of a directory
Matches(spec, fromFile) ==
  LET resolved == resolve(dirname(fromFile), spec)
  IN  \/ isFile(resolved)
      \/ \E e \in Range(fileExtensions) :
           isFile(withExtension(resolved, e)) \/ isFile(Append(resolved, <<"index", e>>))

Unresolvable(spec, fromFile) ==
  isExternalDependency(spec) \/ ~Matches(spec, fromFile)

\* C8: an import whose specifier is external, or internal and matching no
\* file, is kept in the imports list of its node without a resolved path,
\* and every edge of the graph comes from an import that is neither.
C8_NoEdgeForUnresolved ==
  \A r \in Returned : \A n \in Nodes(r) :
    LET F    == AbsPath(r, n)
        good == {j \in 1..Len(n.imports) : ~Unresolvable(n.imports[j].path, F)}
        out  == {k \in 1..Len(r.value[1].edges) : r.value[1].edges[k].from = n.path}
    IN  /\ \A st \in Range(importsOf(fs[F])) :
             Unresolvable(st.spec, F) => \E d \in Imports(n) : d.path = st.spec
        /\ \A d \in Imports(n) :
             Unresolvable(d.path, F) => d.resolvedPath = undefined
        /\ \A k \in out : \E j \in good :
             n.imports[j].resolvedPath = Some(r.value[1].edges[k].to)
        /\ Cardinality(out) <= Cardinality(good)

\* a returned graph where a file with an external import and an import
\* that matches no file is the target of an edge
C8_Witness ==
  \E r \in Returned : \E n \in Nodes(r) :
    /\ \E d \in Imports(n) : d.isExternal /\ d.resolvedPath = undefined
    /\ \E d \in Imports(n) :
         ~d.isExternal /\ ~Matches(d.path, AbsPath(r, n)) /\ d.resolvedPath = undefined
    /\ \E e \in Edges(r) : e.to = n.path

\* C9: an analysis of a path that does not exist rejects and returns no
\* graph, and until then it has read no file and stored no node.
C9_MissingRootRejects ==
  /\ \A r \in Range(returned) :
       ~exists(r.target) => (r.status = "rejected" /\ r.value = undefined)
  /\ (call.pc # "idle" /\ ~exists(call.targetPath))
       => /\ call.pc \in {"collect", "rejected"}
          /\ reads = 0
          /\ Graph.nodes = <<>>

\* the analysis of a missing path has just rejected, after an analysis of
\* the existing root had returned a graph with nodes
C9_Witness ==
  /\ call.pc = "rejected" /\ ~exists(call.targetPath)
  /\ \E r \in Returned : Nodes(r) # {}

\* C10: the analysis of an existing path never rejects, every collected
\* file that can be read is a node of the returned graph, and a file in
\* which no extractor finds anything is a node without imports or exports.
C10_FileFailuresStayLocal ==
  \A r \in Range(returned) :
    /\ exists(r.target) => r.status = "resolved"
    /\ r.status = "resolved" =>
         \A f \in Range(r.files) :
           fs[f].readable =>
             /\ relative(r.rootPath, f) \in Keys(r)
             /\ \A n \in Nodes(r) :
                  n.path = relative(r.rootPath, f)
                  => /\ importsOf(fs[f]) = <<>> => n.imports = <<>>
                     /\ exportsOf(fs[f]) = <<>> => n.exports = <<>>

\* a returned graph over a file that cannot be read (no node), a malformed
\* empty TypeScript file (a node without imports or exports) and a
\* malformed TypeScript file whose import the regex found
C10_Witness ==
  \E r \in Returned :
    /\ \E f \in Range(r.files) :
         ~fs[f].readable /\ relative(r.rootPath, f) \notin Keys(r)
    /\ \E f \in Range(r.files) :
         /\ usesAST(f) /\ fs[f].malformed /\ fs[f].stmts = <<>>
         /\ \E n \in Nodes(r) :
              n.path = relative(r.rootPath, f) /\ n.imports = <<>> /\ n.exports = <<>>
    /\ \E f \in Range(r.files) :
         /\ usesAST(f) /\ fs[f].malformed
         /\ \E n \in Nodes(r) : n.path = relative(r.rootPath, f) /\ Len(n.imports) = 1

Stats(r) == r.value[1].stats

\* C11 (as claimed): stats.mostConnectedFile of a returned graph with nodes
\* is a node whose imports plus dependents are maximal among all nodes, and
\* among the nodes that tie for that count, zero included, it is the one
\* that comes first in the order of the inventory.
C11_MostConnectedIsFirstMaximal ==
  \A r \in Returned :
    LET nodes == r.value[1].nodes
    IN  nodes # <<>> =>
          \E i \in 1..Len(nodes) :
            /\ Stats(r).mostConnectedFile = nodes[i].path
            /\ \A j \in 1..Len(nodes) : connections(nodes[j]) <= connections(nodes[i])
            /\ \A j \in 1..(i - 1) : connections(nodes[j]) < connections(nodes[i])

\* the keys that can be reached from the keys S along the edges E
RECURSIVE ReachFrom(_, _)
ReachFrom(E, S) ==
  LET T == S \cup {e.to : e \in {x \in E : x.from \in S}}
  IN  IF T = S THEN S ELSE ReachFrom(E, T)

\* the directed graph of the edges E has a directed cycle (a loop included)
HasDirectedCycle(E) == \E e \in E : e.from \in ReachFrom(E, {e.to})

\* C16: the cycle list of a returned graph is empty exactly when the
\* directed graph of its edges has no directed cycle, self-imports
\* included, whatever the order of the nodes.
C16_CyclesIffCyclic ==
  \A r \in Returned : (Cycles(r) = <<>>) <=> ~HasDirectedCycle(Edges(r))

\* a returned graph of three nodes with a cycle that the search from the
\* first node does not reach
C16_Witness ==
  \E r \in Returned :
    /\ Cycles(r) # <<>> /\ HasDirectedCycle(Edges(r))
    /\ Len(r.value[1].nodes) = 3
    /\ \A e \in Edges(r) :
         e.from \in ReachFrom(Edges(r), {e.to})
         => e.from \notin ReachFrom(Edges(r), {r.value[1].nodes[1].path})

\* the positions, in the fixed order, of the extensions e for which S + e
\* is a file
FilesNamed(S) ==
  {k \in 1..Len(fileExtensions) : isFile(withExtension(S, fileExtensions[k]))}

\* C17 (as claimed): when a relative specifier names, with a recognized
\* extension appended, at least one file, the import resolves to the first
\* such file in the order .ts, .tsx, .js, .jsx, .mjs, .cjs, whatever index
\* files a directory of that name holds.
C17_FileBeforeIndex ==
  \A r \in Returned : \A n \in Nodes(r) : \A d \in Imports(n) :
    LET S == resolve(dirname(AbsPath(r, n)), d.path)
    IN  (startsWithDot(d.path) /\ FilesNamed(S) # {})
        => \E k \in FilesNamed(S) :
             /\ \A j \in FilesNamed(S) : k <= j
             /\ d.resolvedPath =
                  Some(relative(r.rootPath, withExtension(S, fileExtensions[k])))

\* how many times x occurs in the sequence s
Occurrences(s, x) == Cardinality({i \in 1..Len(s) : s[i] = x})

RECURSIVE SumOfLengths(_, _)
SumOfLengths(lists, i) ==
  IF i > Len(lists) THEN 0 ELSE Len(lists[i]) + SumOfLengths(lists, i + 1)

\* C18: in every returned graph, the dependents of a node hold a path p as
\* many times as the edge list holds an edge from p to that node, and all
\* dependents lists together are as long as the edge list.
C18_DependentsMirrorEdges ==
  \A r \in Returned :
    LET nodes == r.value[1].nodes
        edges == r.value[1].edges
    IN  /\ \A n \in Nodes(r) : \A p \in Keys(r) \cup Range(n.dependents) :
             Occurrences(n.dependents, p)
               = Cardinality({k \in 1..Len(edges) :
                                edges[k].from = p /\ edges[k].to = n.path})
        /\ SumOfLengths([i \in 1..Len(nodes) |-> nodes[i].dependents], 1) = Len(edges)

\* a returned graph with a node that two files depend on, one of them
\* twice
C18_Witness ==
  \E r \in Returned : \E n \in Nodes(r) : \E p, q \in Range(n.dependents) :
    p # q /\ Occurrences(n.dependents, p) = 2 /\ Occurrences(n.dependents, q) = 1

\* the dependents lists of a graph that are not empty, by node
Dependents(g) == {<<n.path, n.dependents>> : n \in {m \in Range(g.nodes) : m.dependents # <<>>}}

\* the cluster assigned to each node that has one
ClusterTags(g) == {<<n.path, n.cluster>> : n \in {m \in Range(g.nodes) : m.cluster # undefined}}

\* C19: in every step of an analysis after its start, edges and dependents
\* change only once every collected file has been parsed, the cycle list
\* changes only after the edges were built and leaves them as they are,
\* the clusters change only after the cycle search, and the statistics
\* change only in the last step, which returns the graph.
C19_PassOrder ==
  [][call'.pc # "collect" =>
       \A id \in DOMAIN heap :
         LET old == heap[id]
             new == heap'[id]
         IN  /\ (new.edges # old.edges \/ Dependents(new) # Dependents(old))
                  => /\ call.pc = "parse" /\ call'.pc = "cycles"
                     /\ call.idx > Len(call.files) /\ reads = Len(call.files)
                     /\ old.circularDependencies = <<>> /\ old.clusters = <<>>
             /\ new.circularDependencies # old.circularDependencies
                  => /\ call.pc = "cycles" /\ call'.pc = "clusters"
                     /\ new.edges = old.edges /\ old.clusters = <<>>
             /\ (new.clusters # old.clusters \/ ClusterTags(new) # ClusterTags(old))
                  => /\ call.pc = "clusters" /\ call'.pc = "stats"
                     /\ new.edges = old.edges
                     /\ new.circularDependencies = old.circularDependencies
             /\ new.stats # old.stats
                  => /\ call.pc = "stats" /\ call'.pc = "done"
                     /\ new.edges = old.edges /\ new.clusters = old.clusters
                     /\ new.circularDependencies = old.circularDependencies]_vars

\* an analysis of several files has returned a graph with edges, a cycle
\* and clusters
C19_Witness ==
  /\ call.pc = "done" /\ Len(call.files) >= 2 /\ reads = Len(call.files)
  /\ Graph.edges # <<>> /\ Graph.circularDependencies # <<>> /\ Graph.clusters # <<>>
  /\ Graph.stats.totalDependencies = Len(Graph.edges)

\* the imports made by the files of cluster c, as (node, position) pairs
ImportsOfCluster(r, c) ==
  UNION {{<<n, j>> : j \in 1..Len(n.imports)}
         : n \in {m \in Nodes(r) : m.path \in Range(c.files)}}

\* the import's target is a node of cluster c
TargetInCluster(r, c, d) ==
  /\ Truthy(d.resolvedPath)
  /\ \E m \in Nodes(r) : m.path = d.resolvedPath[1] /\ m.path \in Range(c.files)

\* C20 (as claimed): for each cluster, internalDependencies counts the
\* imports of its files whose target is a node of the cluster, and
\* externalDependencies counts all their other imports: those whose target
\* is in another cluster or no node, and the unresolved and external ones.
C20_ClusterCounts ==
  \A r \in Returned : \A c \in Range(r.value[1].clusters) :
    LET inside == {x \in ImportsOfCluster(r, c) : TargetInCluster(r, c, x[1].imports[x[2]])}
    IN  /\ c.internalDependencies = Cardinality(inside)
        /\ c.externalDependencies = Cardinality(ImportsOfCluster(r, c) \ inside)

\* lowest <= x <= highest, as JavaScript compares numbers
between(lowest, x, highest) ==
  atLeast(x, Number(lowest)) /\ atLeast(Number(highest), x)

\* C14 (as claimed): whatever depth, preview_lines, max_symbols and
\* max_files exploreTree is given, also through the command line and the
\* HTTP server, which parse texts, the values used for the traversal
\* satisfy 1 <= depth <= 10, 0 <= preview_lines <= 50, 1 <= max_symbols <= 50
\* and 1 <= max_files <= 500.
C14_LimitsHold ==
  explore.options # undefined =>
    /\ between(1, explore.options[1].depth, 10)
    /\ between(0, explore.options[1].preview_lines, 50)
    /\ between(1, explore.options[1].max_symbols, 50)
    /\ between(1, explore.options[1].max_files, 500)

\* the file nodes of the returned tree
FileNodes == {n \in Range(explore.tree) : n.type = "file" /\ ~n.placeholder}

\* the symbol stands for a named declaration at the scope of the file
DeclaredAtFileScope(content, sym) ==
  \E x \in Range(declarations(content)) :
    /\ x.top /\ x.line = sym.line
    /\ \/ x.decl.kind = "export" /\ x.decl.name = sym.name
       \/ isNamed(x.decl) /\ x.decl.name = Some(sym.name)

\* the file holds one exported function that declares one local constant
OneFunctionWithLocal(content) ==
  /\ Len(content.stmts) = 1
  /\ content.stmts[1].kind = "function" /\ isNamed(content.stmts[1])
  /\ content.stmts[1].exported
  /\ Len(content.stmts[1].body) = 1 /\ content.stmts[1].body[1].kind = "const"

\* C12 (as claimed): the symbols of a TypeScript or JavaScript file are
\* declarations made at file scope, never one nested in a body, so a file
\* with one exported function that declares a local constant has exactly
\* one symbol; also when the AST finds nothing and the patterns are used.
C12_OnlyFileScopeSymbols ==
  \A n \in FileNodes :
    n.symbols # undefined =>
      /\ \A sym \in Range(n.symbols[1]) : DeclaredAtFileScope(fs[n.path], sym)
      /\ OneFunctionWithLocal(fs[n.path]) => Len(n.symbols[1]) = 1

\* C13 (as claimed): with show_dependency_graph, every code file of the
\* returned tree that is a node of the dependency graph, under its path
\* relative to the explored root, carries that node's exports, imports
\* and dependents, whatever the working directory of the process.
C13_FilesAreAnnotated ==
  (explore.pc = "done" /\ request.show_dependency_graph) =>
    \A n \in FileNodes :
      LET key == relative(explore.rootPath[1], n.path)
      IN  (isCodeFile(n.path) /\ mapHas(Graph.nodes, key))
          => /\ n.exports = Some(mapGet(Graph.nodes, key).exports)
             /\ n.dependencies = Some(mapGet(Graph.nodes, key).imports)
             /\ n.dependents = Some(mapGet(Graph.nodes, key).dependents)

\* where a path leads when every link is followed, whether or not the
\* process may search the directories on the way; undefined when it leads
\* nowhere
RECURSIVE targetFrom(_, _, _)
targetFrom(done, rest, hops) ==
  IF rest = <<>> THEN Some(done)
  ELSE LET next == Append(done, Head(rest))
       IN  IF next \in DOMAIN links
           THEN IF hops = 0 THEN undefined
                ELSE targetFrom(<<>>, links[next] \o Tail(rest), hops - 1)
           ELSE IF isFile(next)
                THEN IF Tail(rest) = <<>> THEN Some(next) ELSE undefined
           ELSE IF isDirectory(next) THEN targetFrom(next, Tail(rest), hops)
           ELSE undefined

\* the path leads to a place outside the root
LeadsOutside(p, rootPath) ==
  LET t == targetFrom(<<>>, p, MaxSymlinks)
  IN  t # undefined /\ ~IsPrefix(rootPath, t[1])

\* C15 (as claimed): no node below the root of the returned tree stands for
\* an entry whose symlink-resolved path lies outside the validated root:
\* such an entry is not added to the tree, descended into, read or
\* previewed.
C15_NoNodeOutsideRoot ==
  explore.pc = "done" =>
    \A n \in Range(explore.tree) :
      (n.level > 0 /\ ~n.placeholder) => ~LeadsOutside(n.path, explore.rootPath[1])

\* the files of a returned graph that hold at least one external import
FilesWithExternalImport(r) == {n \in Nodes(r) : \E d \in Imports(n) : d.isExternal}

\* C21 (as claimed): stats.externalDependencies is the number of files of
\* the graph that have at least one external raw import.
C21_ExternalCountsFiles ==
  \A r \in Returned :
    Stats(r).externalDependencies = Cardinality(FilesWithExternalImport(r))

\* the sequences of pairwise distinct files of a returned graph in which
\* every file has an edge to the next one
SimplePaths(r) ==
  {s \in UNION {[1..k -> Keys(r)] : k \in 1..Cardinality(Keys(r))} :
     /\ \A i, j \in 1..Len(s) : i # j => s[i] # s[j]
     /\ \A i \in 1..(Len(s) - 1) : \E e \in Edges(r) : e.from = s[i] /\ e.to = s[i + 1]}

\* C22: stats.maxDepth is the number of files on the longest simple path
\* along the edges of the graph: 0 for an empty graph, 1 when there is no
\* edge, and at most the number of files when the graph has cycles.
C22_MaxDepthIsLongestSimplePath ==
  \A r \in Returned :
    /\ \A s \in SimplePaths(r) : Len(s) <= Stats(r).maxDepth
    /\ Stats(r).maxDepth > 0 => \E s \in SimplePaths(r) : Len(s) = Stats(r).maxDepth
    /\ Keys(r) = {} => Stats(r).maxDepth = 0
    /\ (Keys(r) # {} /\ Edges(r) = {}) => Stats(r).maxDepth = 1
    /\ Stats(r).maxDepth <= Cardinality(Keys(r))

\* a returned graph with a ring of three files
C22_Witness ==
  \E r \in Returned : HasDirectedCycle(Edges(r)) /\ Stats(r).maxDepth = 3

\* C23: every reported cycle starts and ends with the same file, the files
\* before the closing repetition are pairwise distinct, every consecutive
\* pair is an edge of the graph, and the length is the number of distinct
\* files of the path.
C23_CyclesAreClosedChains ==
  \A r \in Returned : \A c \in Range(Cycles(r)) :
    /\ Len(c.cycle) >= 2
    /\ c.cycle[1] = c.cycle[Len(c.cycle)]
    /\ \A i, j \in 1..(Len(c.cycle) - 1) : i # j => c.cycle[i] # c.cycle[j]
    /\ \A i \in 1..(Len(c.cycle) - 1) :
         \E e \in Edges(r) : e.from = c.cycle[i] /\ e.to = c.cycle[i + 1]
    /\ c.length = Cardinality(Range(c.cycle))

\* a reported cycle that does not start at the file the search started from
C23_Witness ==
  \E r \in Returned :
    \E c \in Range(Cycles(r)) : c.cycle[1] # r.value[1].nodes[1].path

\* the search detectCircularDependencies ran on a returned graph (the later
\* passes change neither the keys nor the imports of its nodes)
Search(r) == detectFrom(r.value[1].nodes, 1, newSearch)

\* C24: cycle detection ends on every graph, with cycles and self-imports
\* too; it enters every node exactly once, the recursion stack holds the
\* files of the current path at every moment, and the stack is empty at
\* the end.
C24_SearchEntersEachNodeOnce ==
  \A r \in Returned :
    /\ \A k \in Keys(r) : Occurrences(Search(r).entered, k) = 1
    /\ Len(Search(r).entered) = Cardinality(Keys(r))
    /\ Search(r).inStep
    /\ Search(r).recursionStack = {} /\ Search(r).path = <<>>
    /\ Search(r).cycles = Cycles(r)

\* a search over a graph with a self-import and a ring of two files
C24_Witness ==
  \E r \in Returned :
    /\ \E c \in Range(Cycles(r)) : c.length = 1
    /\ \E c \in Range(Cycles(r)) : c.length = 2
    /\ Len(Search(r).entered) >= 2

\* the place of a file name in the order of the names
Rank(name) == CHOOSE i \in 1..Len(localeOrder) : localeOrder[i] = name

\* C25 (as claimed): the inventory of the collector is sorted by path (here:
\* files of one directory stand in the order of their names) and is the
\* same for every order in which the file system lists the entries.
C25_InventoryIsSorted ==
  /\ \A r \in Returned : \A i, j \in 1..Len(r.files) :
       (i < j /\ dirname(r.files[i]) = dirname(r.files[j]))
       => Rank(basename(r.files[i])) < Rank(basename(r.files[j]))
  /\ \A r1, r2 \in Returned : r1.target = r2.target => r1.files = r2.files

\* the import statements of the file of n that name the file of m
StatementsNaming(r, n, m) ==
  {i \in 1..Len(importsOf(fs[AbsPath(r, n)])) :
     resolveImportPath(r.rootPath, importsOf(fs[AbsPath(r, n)])[i].spec, AbsPath(r, n))
       = Some(m.path)}

EdgesBetween(r, n, m) ==
  {k \in 1..Len(r.value[1].edges) :
     r.value[1].edges[k].from = n.path /\ r.value[1].edges[k].to = m.path}

\* C26 (as claimed): every import statement of a file gives one entry of
\* the file's imports, and a file that names another scanned file in a
\* single statement has exactly one edge to it and stands exactly once in
\* its dependents, whatever the extension of the importing file.
C26_OneEntryPerStatement ==
  \A r \in Returned : \A n \in Nodes(r) :
    /\ Len(n.imports) = Len(importsOf(fs[AbsPath(r, n)]))
    /\ \A m \in Nodes(r) :
         Cardinality(StatementsNaming(r, n, m)) = 1
         => /\ Cardinality(EdgesBetween(r, n, m)) = 1
            /\ Occurrences(m.dependents, n.path) = 1

\* C27 (as claimed): no cluster of a returned graph holds both a file that
\* lies directly at the root and a file of a subdirectory, whatever the
\* name of the directory.
C27_RootClusterHoldsRootFilesOnly ==
  \A r \in Returned : \A c \in Range(r.value[1].clusters) :
    ~(\E f, g \in Range(c.files) : Len(f) <= 1 /\ Len(g) > 1)

\* the directories of the file system
Directories == UNION {{Prefix(f, k) : k \in 0..(Len(f) - 1)} : f \in DOMAIN fs}

\* what lies below a directory: every file with its path from the directory
\* and its content
Below(dir) ==
  {<<Suffix(f, Len(dir)), fs[f]>> : f \in {g \in DOMAIN fs : IsPrefix(dir, g)}}

\* what a tree shows below its root
Shown(tree) ==
  [i \in 1..(Len(tree) - 1) |->
     [name |-> tree[i + 1].name, type |-> tree[i + 1].type,
      level |-> tree[i + 1].level, placeholder |-> tree[i + 1].placeholder]]

\* C28 (as claimed): a root with the same contents as the explored one, in
\* a file system without links, is shown with the same entries, whatever
\* the names of the two roots and of the directories above them.
C28_SkippingIgnoresRootName ==
  (explore.pc = "done" /\ DOMAIN links = {}) =>
    \A other \in {d \in Directories : Below(d) = Below(explore.rootPath[1])} :
      Shown(traverseDirectory(other, 0, [TraverseOptions EXCEPT !.rootPath = other]))
        = Shown(explore.tree)

\* C29 (as claimed): a call of formatDependencyGraph,
\* formatCompactDependencyGraph or formatDependencyGraphJson leaves the
\* graph as it was: nodes, edges, cycles, stats and the cluster list in its
\* order.
C29_FormattingKeepsGraph ==
  \A f \in Range(formatted) : f.after = f.before

\* the graph one call builds from an inventory when nothing else runs:
\* the passes of DependencyAnalyzer.analyzeDependencies, one after the other
RECURSIVE parseAll(_, _, _)
parseAll(g, rootPath, files) ==
  IF files = <<>> THEN g
  ELSE parseAll(parseFile(g, rootPath, Head(files)), rootPath, Tail(files))

AnalysisAlone(rootPath, files) ==
  calculateStats(calculateClusters(detectCircularDependencies(buildDependencyGraph(
    parseAll(resetGraph(emptyGraph), rootPath, files)))))

\* the analyses under way: the one that runs and the ones that wait
UnderWay == Range(suspended) \cup (IF Settled THEN {} ELSE {Waiting})

\* the files of the inventory that the analysis has parsed into a node
Parsed(w) ==
  SelectSeq(Prefix(w.call.files, w.call.idx - 1), LAMBDA f : fs[f].readable)

\* C30: overlapping calls of the exported analyzeDependencies share no
\* analyzer state: in every interleaving of their steps each call returns
\* the graph it builds when it runs alone, and while a call parses, its
\* node map holds one node for every file it has parsed (no key is written
\* twice, none is written or removed by another call).
C30_OverlappingCallsAreIndependent ==
  /\ \A r \in Returned :
       /\ r.files \in collectFiles(r.target)
       /\ r.value[1] = AnalysisAlone(r.rootPath, r.files)
  /\ \A w \in UnderWay :
       w.call.pc = "parse"
       => LET nodes == heap[analyzers[w.call.analyzer].graph].nodes
          IN  /\ Len(nodes) = Len(Parsed(w))
              /\ \A i \in 1..Len(nodes) :
                   nodes[i].path = relative(analyzers[w.call.analyzer].rootPath, Parsed(w)[i])

\* an analysis of two files has returned while an earlier one waits with
\* one of its files parsed
C30_Witness ==
  /\ call.pc = "done" /\ Len(call.files) = 2
  /\ \E w \in Range(suspended) :
       w.call.pc = "parse" /\ w.call.idx = 2 /\ Len(w.call.files) = 2

====
